---- MODULE Spec2Model ----
(***************************************************************************)
(* WordBot: the review scheduler (record_stat), the word cache and pick    *)
(* policy, the blitz session registry with its deadline job, and the math  *)
(* quiz session of MathBotHandler, as state machines.                      *)
(***************************************************************************)
EXTENDS Integers, Sequences, FiniteSets, TLC

(* ---------------------------- bounds ------------------------------------ *)
NumUsers == 2
MaxWords == 1
MaxDay == 1
MaxLevel == 4
MaxStats == 2
MaxStarts == 2
MaxPolls == 3
MaxAnswers == 2
MaxSessions == 1
MaxQuizAnswers == 5
MaxFinishes == 1
MaxStored == 2
MaxScope == 4
MaxFailures == 1
MaxGroups == 2
MaxFolds == 2
MaxFoldCount == 2
MaxLineLen == 5
MaxPhraseLen == 3
MaxTranslationLen == 2
MaxImportLines == 3
MaxStreakStats == 5

(* ------------------------ program constants ----------------------------- *)
POINTS_FOR_CORRECT == 5
POINTS_FOR_CORRECT_BLITZ == 7
POINTS_FOR_WRONG == 0 - 4
POINTS_FOR_ADDED == 0
PromoteAt == 2
ResetAt == 1
NULL == 0 - 1
NoGroup == 0
NoWord == 0
NoPoll == 0
NumOptions == 4
SmallestQuiz == 5
NoQuestion == 0 - 1
NoSession == 0

Users == 1 .. NumUsers
Groups == {NoGroup, 1}
WordIds == 1 .. MaxWords
StatActions == {"added", "correct", "wrong"}

VARIABLES
    today,        \* local_date(): the current calendar day, as a day number
    words,        \* table words: id -> row
    wordSeq,      \* AUTOINCREMENT sequence of table words (last id handed out)
    stats,        \* table stats: number of rows per (user_id, action)
    points,       \* users.points
    WORDS_CACHE,  \* (user_id, group_id) -> list of word ids loaded as eligible
    answered,     \* history: per word, the correct answers in a row since its
                  \* last wrong answer or promotion (what the row's streak should be)
    LAST_ASKED,   \* (user_id, group_id) -> id of the word asked last
    BLITZ_SESSIONS, \* tg_id -> {active, correct, wrong, until}
    QUIZ_SESSIONS,  \* tg_id -> {current_question_num, correct_count}
    ACTIVE_POLLS, \* poll id -> info of a poll sent and not yet retired
    pollSeq,      \* number of polls Telegram has created for the bot
    startSeq,     \* number of blitz sessions started (their deadlines, in order of creation)
    jobs,         \* job queue: the blitz_time_up_job runs scheduled, one per blitz start
    handler,      \* the update handler in flight (updates are handled one at a time)
    summaries,    \* the blitz_time_up messages delivered
    math_quiz_session,   \* context.user_data['math_quiz_session'], per user
    math_quiz_sessions,  \* table math_quiz_sessions: id -> row
    math_quiz_answers,   \* table math_quiz_answers: rows in order of insertion
    math_question_stats, \* table math_question_stats: (user_id, question) -> row
    math_user_stats,     \* table math_user_stats: user_id -> row
    quiz_results, \* the results finish_quiz_session has returned, in order
    shown,        \* per user, the index of the question displayed last
    reply,        \* per user, the bot's answer to the last math update
    groups,       \* table groups: id -> row
    selected_group, \* context.user_data["selected_group"] of the user who takes quizzes
    uzbek,        \* column uzbek of table words, by word id
    cache_reads,  \* history: the clear() calls in a row that emptied WORDS_CACHE
                  \* last, and per key the reads and store loads since then
    distractors,  \* the last call of get_distractors: its arguments and its result
    users_groups, \* table users_groups: the (user_id, group_id) rows
    GROUPS_CACHE, \* user_id -> the groups loaded for the user: id -> name
    groupSeq,     \* AUTOINCREMENT sequence of table groups
    line,         \* the line handed to parse_word_line, a sequence of characters
    parsed,       \* what parse_word_line did with it
    imported      \* the call of add_words_from_lines: its lines and what it returned

reviewVars == <<today, words, wordSeq, stats, points, WORDS_CACHE, answered>>
pollVars == <<LAST_ASKED, BLITZ_SESSIONS, QUIZ_SESSIONS, ACTIVE_POLLS, pollSeq,
              startSeq, jobs, handler, summaries>>
mathVars == <<math_quiz_session, math_quiz_sessions, math_quiz_answers,
              math_question_stats, math_user_stats, quiz_results, shown, reply>>
memberVars == <<users_groups, GROUPS_CACHE, groupSeq>>
parseVars == <<line, parsed, imported>>
bookVars == <<groups, memberVars, parseVars, selected_group, uzbek, cache_reads, distractors>>
vars == <<reviewVars, pollVars, mathVars, bookVars>>

(* ------------------------------ store ----------------------------------- *)
Max(a, b) == IF a >= b THEN a ELSE b

\* the number of rows in table stats
RECURSIVE StatsOfUsers(_)
StatsOfUsers(n) ==
    IF n = 0 THEN 0
    ELSE stats[<<n, "added">>] + stats[<<n, "correct">>] + stats[<<n, "wrong">>]
         + StatsOfUsers(n - 1)

StatsTotal == StatsOfUsers(NumUsers)

\* INSERT INTO stats (user_id, action, word_id, ...)
InsertStat(st, user_id, action) ==
    [st EXCEPT ![<<user_id, action>>] = @ + 1]

\* a variant without the MAX(..., 0)
AddPointsNoFloor(pts, user_id, delta) ==
    [pts EXCEPT ![user_id] = @ + delta]

\* UPDATE users SET points = MAX(points + ?, 0) WHERE id=?
AddPoints(pts, user_id, delta) ==
    [pts EXCEPT ![user_id] = Max(@ + delta, 0)]

\* the row add_word inserts
NewWordRow(user_id, group_id, d) ==
    [user_id |-> user_id, group_id |-> group_id, review_level |-> 0,
     next_review |-> d, correct_count |-> 0, wrong_count |-> 0]

(* ------------------------- review scheduler ----------------------------- *)
\* mutant: the table read at the level after the promotion
DaysAddByNewLevel(level) ==
    IF level + 1 = 0 THEN 1
    ELSE IF level + 1 = 1 THEN 3
    ELSE IF level + 1 = 2 THEN 10
    ELSE 30

\* days added on promotion, indexed by the level before the promotion
DaysAdd(level) ==
    IF level = 0 THEN 1
    ELSE IF level = 1 THEN 3
    ELSE IF level = 2 THEN 10
    ELSE 30

\* mutant: every correct answer promotes
CorrectRowPromoteAtOnce(w, d) ==
    [w EXCEPT !.review_level = w.review_level + 1,
              !.next_review = d + DaysAdd(w.review_level),
              !.correct_count = 0,
              !.wrong_count = 0]

\* a variant that dates the word one day ahead at the first correct answer
CorrectRowDated(w, d) ==
    LET new_count == w.correct_count + 1
        counted == [w EXCEPT !.correct_count = new_count, !.wrong_count = 0,
                             !.next_review = d + 1]
    IN IF new_count = PromoteAt
       THEN [counted EXCEPT !.review_level = w.review_level + 1,
                            !.next_review = d + DaysAdd(w.review_level),
                            !.correct_count = 0,
                            !.wrong_count = 0]
       ELSE counted

\* a variant whose promotion leaves the streak at the promoting count
CorrectRowKeepsStreak(w, d) ==
    LET new_count == w.correct_count + 1
        counted == [w EXCEPT !.correct_count = new_count, !.wrong_count = 0]
    IN IF new_count = PromoteAt
       THEN [counted EXCEPT !.review_level = w.review_level + 1,
                            !.next_review = d + DaysAdd(w.review_level),
                            !.wrong_count = 0]
       ELSE counted

\* the row after a 'correct' answer on day d
CorrectRow(w, d) ==
    LET new_count == w.correct_count + 1
        counted == [w EXCEPT !.correct_count = new_count, !.wrong_count = 0]
    IN IF new_count = PromoteAt
       THEN [counted EXCEPT !.review_level = w.review_level + 1,
                            !.next_review = d + DaysAdd(w.review_level),
                            !.correct_count = 0,
                            !.wrong_count = 0]
       ELSE counted

\* mutant: a wrong answer demotes by one level instead of resetting
WrongRowDemoteOne(w, d) ==
    [w EXCEPT !.review_level = Max(w.review_level - 1, 0), !.next_review = d,
              !.correct_count = 0, !.wrong_count = 0]

\* the row after a 'wrong' answer on day d
WrongRow(w, d) ==
    LET new_wrong == w.wrong_count + 1
        counted == [w EXCEPT !.wrong_count = new_wrong]
    IN IF new_wrong >= ResetAt
       THEN [counted EXCEPT !.review_level = 0, !.next_review = d,
                            !.correct_count = 0, !.wrong_count = 0]
       ELSE counted

\* a variant that clears on a wrong answer only
StatClearsCacheOnWrong(w, action) ==
    action = "wrong" /\ w.wrong_count + 1 >= ResetAt

\* does record_stat reach one of its WORDS_CACHE.clear() calls
StatClearsCache(w, action) ==
    \/ action = "correct" /\ w.correct_count + 1 = PromoteAt
    \/ action = "wrong" /\ w.wrong_count + 1 >= ResetAt

\* a variant that gives a correct answer the same points in both modes
PointsDeltaOneMode(action, is_blitz) ==
    IF action = "added" THEN POINTS_FOR_ADDED
    ELSE IF action = "correct" THEN POINTS_FOR_CORRECT
    ELSE IF action = "wrong" THEN POINTS_FOR_WRONG
    ELSE 0

\* the point delta of an action
PointsDelta(action, is_blitz) ==
    IF action = "added" THEN POINTS_FOR_ADDED
    ELSE IF action = "correct"
         THEN (IF is_blitz THEN POINTS_FOR_CORRECT_BLITZ ELSE POINTS_FOR_CORRECT)
    ELSE IF action = "wrong" THEN POINTS_FOR_WRONG
    ELSE 0

\* a variant that writes a row for a word the store does not hold
StatWordsAnyId(ws, action, word_id, d) ==
    IF word_id # NoWord
    THEN LET row == IF word_id \in DOMAIN ws THEN ws[word_id]
                    ELSE NewWordRow(1, NoGroup, d)
         IN (word_id :> (IF action = "correct" THEN CorrectRow(row, d)
                         ELSE IF action = "wrong" THEN WrongRow(row, d)
                         ELSE row)) @@ ws
    ELSE ws

\* record_stat as a function of the store: the store after the call
StatWords(ws, action, word_id, d) ==
    IF word_id # NoWord /\ word_id \in DOMAIN ws
    THEN [ws EXCEPT ![word_id] =
            IF action = "correct" THEN CorrectRow(@, d)
            ELSE IF action = "wrong" THEN WrongRow(@, d)
            ELSE @]
    ELSE ws

\* a variant that drops only the owner's ungrouped key
StatCacheOwnKey(cache, ws, action, word_id) ==
    IF word_id # NoWord /\ word_id \in DOMAIN ws
       /\ StatClearsCache(ws[word_id], action)
    THEN [k \in DOMAIN cache \ {<<ws[word_id].user_id, NoGroup>>} |-> cache[k]]
    ELSE cache

StatCache(cache, ws, action, word_id) ==
    IF word_id # NoWord /\ word_id \in DOMAIN ws
       /\ StatClearsCache(ws[word_id], action)
    THEN << >>
    ELSE cache

\* the stats table is explored up to MaxStats rows
StatInBounds == StatsTotal < MaxStats

record_stat(user_id, action, word_id, is_blitz) ==
    /\ stats' = InsertStat(stats, user_id, action)
    /\ words' = StatWords(words, action, word_id, today)
    /\ WORDS_CACHE' = StatCache(WORDS_CACHE, words, action, word_id)
    /\ points' = AddPoints(points, user_id, PointsDelta(action, is_blitz))

(* ----------------------------- operations ------------------------------- *)
\* the run is explored up to the word ids its history covers
add_word(user_id, group_id) ==
    /\ wordSeq + 1 \in DOMAIN answered
    /\ StatInBounds
    /\ wordSeq' = wordSeq + 1
    /\ words' = (wordSeq + 1 :> NewWordRow(user_id, group_id, today)) @@ words
    /\ stats' = InsertStat(stats, user_id, "added")
    /\ points' = AddPoints(points, user_id, POINTS_FOR_ADDED)
    /\ WORDS_CACHE' = << >>
    /\ answered' = [answered EXCEPT ![wordSeq + 1] = 0]
    /\ UNCHANGED today

\* a variant without the clear() call
delete_word_if_owner_no_clear(word_id, user_id) ==
    /\ word_id \in DOMAIN words
    /\ words[word_id].user_id = user_id
    /\ words' = [w \in DOMAIN words \ {word_id} |-> words[w]]
    /\ UNCHANGED <<today, wordSeq, stats, points, answered, WORDS_CACHE>>

delete_word_if_owner(word_id, user_id) ==
    /\ word_id \in DOMAIN words
    /\ words[word_id].user_id = user_id
    /\ words' = [w \in DOMAIN words \ {word_id} |-> words[w]]
    /\ WORDS_CACHE' = << >>
    /\ UNCHANGED <<today, wordSeq, stats, points, answered>>

\* the history of an answer: a wrong answer or a promotion starts a new run
Answered(h, action, word_id) ==
    IF word_id \notin DOMAIN words THEN h
    ELSE IF action = "correct" /\ words'[word_id].review_level = words[word_id].review_level
    THEN [h EXCEPT ![word_id] = @ + 1]
    ELSE [h EXCEPT ![word_id] = 0]

\* an answer scored outside a session: record_stat called on its own
Answer(user_id, action, word_id, is_blitz) ==
    /\ StatInBounds
    /\ record_stat(user_id, action, word_id, is_blitz)
    /\ answered' = Answered(answered, action, word_id)
    /\ UNCHANGED <<today, wordSeq>>

\* midnight in TZ passes
Midnight ==
    /\ today < MaxDay
    /\ today' = today + 1
    /\ UNCHANGED <<words, wordSeq, stats, points, WORDS_CACHE, answered>>

Idle == [op |-> "idle"]

\* a process that has just started: no session, poll, job or handler
PollsInit ==
    /\ LAST_ASKED = << >>
    /\ BLITZ_SESSIONS = << >>
    /\ QUIZ_SESSIONS = << >>
    /\ ACTIVE_POLLS = << >>
    /\ pollSeq = 0
    /\ startSeq = 0
    /\ jobs = << >>
    /\ handler = Idle
    /\ summaries = << >>

\* the math tables of a fresh database, and no user in a quiz
MathInit ==
    /\ math_quiz_session = << >>
    /\ math_quiz_sessions = << >>
    /\ math_quiz_answers = << >>
    /\ math_question_stats = << >>
    /\ math_user_stats = << >>
    /\ quiz_results = << >>
    /\ shown = [u \in Users |-> NoQuestion]
    /\ reply = [u \in Users |-> "none"]

(* ---------------------------- parse_word_line --------------------------- *)
\* a line is a sequence of characters; the two dashes that are not ASCII are
\* written by name
EnDash == "en dash"
EmDash == "em dash"
Space == " "

\* str.strip(): the whitespace at both ends removed
RECURSIVE LStrip(_)
LStrip(s) == IF s # << >> /\ Head(s) = Space THEN LStrip(Tail(s)) ELSE s
RECURSIVE RStrip(_)
RStrip(s) ==
    IF s # << >> /\ s[Len(s)] = Space THEN RStrip(SubSeq(s, 1, Len(s) - 1)) ELSE s
Strip(s) == RStrip(LStrip(s))

\* line.replace(en dash, "-").replace(em dash, "-")
Normalize(s) == [i \in DOMAIN s |-> IF s[i] \in {EnDash, EmDash} THEN "-" ELSE s[i]]

\* sep in s
Contains(s, sep) == \E i \in DOMAIN s : s[i] = sep
\* s.split(sep, 1) for s that contains sep: cut at the first sep
Split(s, sep) ==
    LET i == CHOOSE k \in DOMAIN s : s[k] = sep /\ \A j \in 1 .. k - 1 : s[j] # sep
    IN <<SubSeq(s, 1, i - 1), SubSeq(s, i + 1, Len(s))>>

NotParsed == [error |-> "not called", eng |-> << >>, uz |-> << >>]
ValueError(msg) == [error |-> msg, eng |-> << >>, uz |-> << >>]
Returned(eng, uz) == [error |-> "none", eng |-> eng, uz |-> uz]

\* a variant that returns the parts whether or not one of them is empty
StrippedPartsUnchecked(parts) == Returned(Strip(parts[1]), Strip(parts[2]))

\* the end of parse_word_line: strip both parts, refuse an empty one
StrippedParts(parts) ==
    LET eng == Strip(parts[1])
        uz == Strip(parts[2])
    IN IF eng = << >> \/ uz = << >>
       THEN ValueError("empty english or uzbek")
       ELSE Returned(eng, uz)

\* a variant that looks for the colon first
parse_word_line_colon_first(l) ==
    IF l = << >> \/ Strip(l) = << >>
    THEN ValueError("empty line")
    ELSE LET normalized == Normalize(l)
         IN IF Contains(normalized, ":")
            THEN StrippedParts(Split(normalized, ":"))
            ELSE IF Contains(normalized, "-")
                 THEN StrippedParts(Split(normalized, "-"))
                 ELSE ValueError("no separator found")

parse_word_line(l) ==
    IF l = << >> \/ Strip(l) = << >>
    THEN ValueError("empty line")
    ELSE LET normalized == Normalize(l)
         IN IF Contains(normalized, "-")
            THEN StrippedParts(Split(normalized, "-"))
            ELSE IF Contains(normalized, ":")
                 THEN StrippedParts(Split(normalized, ":"))
                 ELSE ValueError("no separator found")

\* add_words_from_lines has not been called
NoImport == [called |-> FALSE, lines |-> << >>, added |-> 0, errors |-> << >>]

\* a variant that takes only the empty line for blank
is_blank_empty_only(l) == l = << >>
\* add_words_from_lines: not line or not line.strip()
is_blank(l) == l = << >> \/ Strip(l) = << >>

\* no group, every word translated alike, nothing read and no question built
NoCall == [correct_word_id |-> NoWord, group_id |-> NoGroup, opts |-> << >>]
NoReads == [clears |-> 0, reads |-> << >>, loads |-> << >>, rolled_back |-> FALSE]

BookInit ==
    /\ groups = << >>
    /\ users_groups = {}
    /\ GROUPS_CACHE = << >>
    /\ groupSeq = 0
    /\ selected_group = NoGroup
    /\ uzbek = [w \in WordIds |-> "mushuk"]
    /\ cache_reads = NoReads
    /\ distractors = NoCall
    /\ line = << >>
    /\ parsed = NotParsed
    /\ imported = NoImport

\* rows an earlier run of the bot can have left in table words: any level up
\* to MaxLevel, a streak of 0 or 1, next_review unset (a row older than the
\* column) or already due
EarlierRows ==
    [user_id : {1}, group_id : {NoGroup}, review_level : 0 .. MaxLevel,
     next_review : {NULL, 0}, correct_count : {0, 1}, wrong_count : {0}]

\* the process starts on a database file that is empty or holds one earlier word
ReviewInit ==
    /\ today = 0
    /\ \/ words = << >> /\ wordSeq = 0
       \/ \E r \in EarlierRows : words = (1 :> r) /\ wordSeq = 1
    /\ stats = [k \in Users \X StatActions |-> 0]
    /\ points = [u \in Users |-> 0]
    /\ WORDS_CACHE = << >>
    /\ answered = [w \in WordIds |->
                      IF w \in DOMAIN words THEN words[w].correct_count ELSE 0]
    /\ PollsInit
    /\ MathInit
    /\ BookInit

AddWordStep ==
    /\ \E u \in Users, g \in Groups : add_word(u, g)
    /\ UNCHANGED <<pollVars, mathVars, bookVars>>
DeleteWordStep ==
    /\ \E w \in WordIds, u \in Users : delete_word_if_owner(w, u)
    /\ UNCHANGED <<pollVars, mathVars, bookVars>>
AnswerStep ==
    /\ \E u \in Users, a \in {"correct", "wrong"}, w \in WordIds, b \in BOOLEAN :
          Answer(u, a, w, b)
    /\ UNCHANGED <<pollVars, mathVars, bookVars>>
MidnightStep ==
    /\ Midnight
    /\ UNCHANGED <<pollVars, mathVars, bookVars>>

ReviewNext ==
    \/ AddWordStep
    \/ DeleteWordStep
    \/ AnswerStep
    \/ MidnightStep

SpecReview == ReviewInit /\ [][ReviewNext]_vars

(* ------------------------------ pick policy ----------------------------- *)
RECURSIVE SortedSeq(_)
SortedSeq(S) ==
    IF S = {} THEN << >>
    ELSE LET m == CHOOSE x \in S : \A y \in S : x <= y
         IN <<m>> \o SortedSeq(S \ {m})

Range(seq) == {seq[i] : i \in DOMAIN seq}

Remove(f, k) == [x \in DOMAIN f \ {k} |-> f[x]]

\* a variant without the next_review condition
EligibleRowsAnyDate(ws, user_id, group_id, d) ==
    SortedSeq({w \in DOMAIN ws :
                 IF group_id # NoGroup THEN ws[w].group_id = group_id
                                       ELSE ws[w].user_id = user_id})

\* SELECT * FROM words WHERE group_id=? (or user_id=?) AND
\* (next_review IS NULL OR next_review <= today), in rowid order
EligibleRows(ws, user_id, group_id, d) ==
    SortedSeq({w \in DOMAIN ws :
                 /\ IF group_id # NoGroup THEN ws[w].group_id = group_id
                                          ELSE ws[w].user_id = user_id
                 /\ (ws[w].next_review = NULL \/ ws[w].next_review <= d)})

\* a variant that loads the key on every call
PickCacheReloads(cache, ws, user_id, group_id, d) ==
    (<<user_id, group_id>> :> EligibleRows(ws, user_id, group_id, d)) @@ cache

\* WORDS_CACHE after pick_user_word has looked its key up
PickCache(cache, ws, user_id, group_id, d) ==
    IF <<user_id, group_id>> \in DOMAIN cache THEN cache
    ELSE (<<user_id, group_id>> :> EligibleRows(ws, user_id, group_id, d)) @@ cache

\* a variant that never repeats the word asked last
PickChoicesNoRepeat(cache, last, user_id, group_id) ==
    LET key == <<user_id, group_id>>
        ws == cache[key]
        last_id == IF key \in DOMAIN last THEN last[key] ELSE NoWord
    IN {w \in Range(ws) : w # last_id}

\* the words random.choice may return; none when pick_user_word returns None
PickChoices(cache, last, user_id, group_id) ==
    LET key == <<user_id, group_id>>
        ws == cache[key]
        last_id == IF key \in DOMAIN last THEN last[key] ELSE NoWord
        candidates == {w \in Range(ws) : w # last_id}
    IN IF Len(ws) = 0 THEN {}
       ELSE IF last_id # NoWord /\ Len(ws) > 1 /\ candidates # {} THEN candidates
       ELSE Range(ws)

(* --------------------------- polls and sessions ------------------------- *)
NoOption == 0 - 1
Options == 0 .. NumOptions - 1
\* where random.shuffle may leave the correct option: the first or the last place
ShuffleOutcomes == {0, NumOptions - 1}

NewHandler(op, user, poll, group, is_blitz, question_num) ==
    [op |-> op, pc |-> "pick", user |-> user, poll |-> poll, group |-> group,
     is_blitz |-> is_blitz, question_num |-> question_num, word |-> NoWord]

\* the session blitz_start_cb stores; until stands for its deadline instant
NewBlitzSession(until) ==
    [active |-> TRUE, correct |-> 0, wrong |-> 0, until |-> until]

\* on_poll_answer: the blitz counters after an answer scored as action
BumpBlitz(sessions, tg_id, is_blitz, action) ==
    IF is_blitz /\ tg_id \in DOMAIN sessions
    THEN IF action = "correct"
         THEN [sessions EXCEPT ![tg_id].correct = @ + 1]
         ELSE [sessions EXCEPT ![tg_id].wrong = @ + 1]
    ELSE sessions

\* on_poll_answer: the quiz session after an answer scored as action
BumpQuiz(sessions, tg_id, is_blitz, action) ==
    IF ~is_blitz /\ action = "correct" /\ tg_id \in DOMAIN sessions
    THEN [sessions EXCEPT ![tg_id].correct_count = @ + 1]
    ELSE sessions

\* blitz_start_cb: data is "cancel" or a number of minutes
blitz_start_cb(u, data, g) ==
    /\ handler = Idle
    /\ IF data = "cancel"
       THEN UNCHANGED vars
       ELSE /\ startSeq < MaxStarts
            /\ startSeq' = startSeq + 1
            /\ jobs' = (startSeq + 1 :> [tg_id |-> u, pc |-> "scheduled",
                                         correct |-> 0, wrong |-> 0, until |-> 0]) @@ jobs
            /\ BLITZ_SESSIONS' = (u :> NewBlitzSession(startSeq + 1)) @@ BLITZ_SESSIONS
            /\ handler' = NewHandler("blitz_start_cb", u, NoPoll, g, TRUE, 0)
            /\ UNCHANGED <<reviewVars, LAST_ASKED, QUIZ_SESSIONS, ACTIVE_POLLS,
                           pollSeq, summaries>>

\* group_select_cb with pending_action "quiz": a first question, or the
\* continue prompt when a session is past its first question
group_select_cb(u, g) ==
    /\ handler = Idle
    /\ IF u \in DOMAIN QUIZ_SESSIONS /\ QUIZ_SESSIONS[u].current_question_num > 1
       THEN UNCHANGED vars
       ELSE /\ handler' = NewHandler("group_select_cb", u, NoPoll, g, FALSE, 1)
            /\ UNCHANGED <<reviewVars, LAST_ASKED, BLITZ_SESSIONS, QUIZ_SESSIONS,
                           ACTIVE_POLLS, pollSeq, startSeq, jobs, summaries>>

\* the action on_poll_answer scores: chosen against the poll's correct option
Scored(info, chosen) == IF chosen = info.correct_idx THEN "correct" ELSE "wrong"

\* a variant that scores an answer whoever sent it
on_poll_answer_any_user(u, poll_id, chosen) ==
    /\ handler = Idle
    /\ IF \/ poll_id \notin DOMAIN ACTIVE_POLLS
          \/ chosen = NoOption
       THEN UNCHANGED vars
       ELSE LET info == ACTIVE_POLLS[poll_id]
                action == Scored(info, chosen)
            IN /\ StatsTotal < MaxAnswers
               /\ record_stat(info.db_user_id, action, info.word_id,
                              action = "correct" /\ info.is_blitz)
               /\ answered' = Answered(answered, action, info.word_id)
               /\ BLITZ_SESSIONS' = BumpBlitz(BLITZ_SESSIONS, u, info.is_blitz, action)
               /\ QUIZ_SESSIONS' = BumpQuiz(QUIZ_SESSIONS, u, info.is_blitz, action)
               /\ handler' = NewHandler("on_poll_answer", info.tg_user_id, poll_id,
                                        info.group_id, info.is_blitz,
                                        info.question_num + 1)
               /\ UNCHANGED <<today, wordSeq, LAST_ASKED, ACTIVE_POLLS, pollSeq,
                              startSeq, jobs, summaries>>

\* on_poll_answer up to its first await (stop_poll)
on_poll_answer(u, poll_id, chosen) ==
    /\ handler = Idle
    /\ IF \/ poll_id \notin DOMAIN ACTIVE_POLLS
          \/ ACTIVE_POLLS[poll_id].tg_user_id # u
          \/ chosen = NoOption
       THEN UNCHANGED vars
       ELSE LET info == ACTIVE_POLLS[poll_id]
                action == Scored(info, chosen)
            IN /\ StatsTotal < MaxAnswers
               /\ record_stat(info.db_user_id, action, info.word_id,
                              action = "correct" /\ info.is_blitz)
               /\ answered' = Answered(answered, action, info.word_id)
               /\ BLITZ_SESSIONS' = BumpBlitz(BLITZ_SESSIONS, u, info.is_blitz, action)
               /\ QUIZ_SESSIONS' = BumpQuiz(QUIZ_SESSIONS, u, info.is_blitz, action)
               /\ handler' = NewHandler("on_poll_answer", info.tg_user_id, poll_id,
                                        info.group_id, info.is_blitz,
                                        info.question_num + 1)
               /\ UNCHANGED <<today, wordSeq, LAST_ASKED, ACTIVE_POLLS, pollSeq,
                              startSeq, jobs, summaries>>

\* send_quiz_poll / send_blitz_poll_app up to the first await: pick_user_word,
\* then the no-words message or LAST_ASKED and the poll
send_poll_pick ==
    /\ handler # Idle
    /\ handler.pc = "pick"
    /\ LET u == handler.user
           g == handler.group
           cache == PickCache(WORDS_CACHE, words, u, g, today)
           choices == PickChoices(cache, LAST_ASKED, u, g)
       IN /\ WORDS_CACHE' = cache
          /\ IF choices = {}
             THEN /\ handler' = [handler EXCEPT !.pc = "no_words"]
                  /\ UNCHANGED LAST_ASKED
             ELSE \E w \in choices :
                     /\ handler' = [handler EXCEPT !.pc = "send_poll", !.word = w]
                     /\ LAST_ASKED' = (<<u, g>> :> w) @@ LAST_ASKED
    /\ UNCHANGED <<mathVars, bookVars>>
    /\ UNCHANGED <<today, words, wordSeq, stats, points, answered, BLITZ_SESSIONS,
                   QUIZ_SESSIONS, ACTIVE_POLLS, pollSeq, startSeq, jobs, summaries>>

\* what the handler does once its send_*_poll call has returned
Retire(polls, h) ==
    IF h.op = "on_poll_answer" THEN Remove(polls, h.poll) ELSE polls

\* the quiz_no_words message was sent: send_quiz_poll drops the quiz session
send_poll_no_words ==
    /\ handler # Idle
    /\ handler.pc = "no_words"
    /\ QUIZ_SESSIONS' = IF handler.is_blitz THEN QUIZ_SESSIONS
                        ELSE Remove(QUIZ_SESSIONS, handler.user)
    /\ ACTIVE_POLLS' = Retire(ACTIVE_POLLS, handler)
    /\ handler' = Idle
    /\ UNCHANGED <<mathVars, bookVars, reviewVars, LAST_ASKED, BLITZ_SESSIONS, pollSeq, startSeq, jobs,
                   summaries>>

\* the info dict stored in ACTIVE_POLLS; sess is history: the deadline of the
\* blitz session the poll was registered under (0 for a quiz poll)
PollInfo(h, correct_idx, question_num, sess) ==
    [tg_user_id |-> h.user, db_user_id |-> h.user, word_id |-> h.word,
     correct_idx |-> correct_idx, group_id |-> h.group,
     question_num |-> question_num, is_blitz |-> h.is_blitz, sess |-> sess]

\* send_quiz_poll: the session after the poll was sent
QuizSessionAfterPoll(sessions, tg_id, question_num) ==
    IF tg_id \notin DOMAIN sessions
    THEN (tg_id :> [current_question_num |-> 1, correct_count |-> 0]) @@ sessions
    ELSE [sessions EXCEPT ![tg_id].current_question_num = question_num]

\* send_poll returned: the poll is registered and the answered poll retired
send_poll_sent ==
    /\ handler # Idle
    /\ handler.pc = "send_poll"
    /\ \E has_poll \in BOOLEAN, correct_idx \in ShuffleOutcomes :
         IF ~has_poll
         THEN /\ correct_idx = 0
              /\ ACTIVE_POLLS' = Retire(ACTIVE_POLLS, handler)
              /\ handler' = Idle
              /\ UNCHANGED <<QUIZ_SESSIONS, pollSeq>>
         ELSE /\ pollSeq < MaxPolls
              /\ pollSeq' = pollSeq + 1
              /\ handler' = Idle
              /\ IF handler.is_blitz
                 THEN /\ UNCHANGED QUIZ_SESSIONS
                      /\ IF handler.user \in DOMAIN BLITZ_SESSIONS
                         THEN LET sess == BLITZ_SESSIONS[handler.user]
                              IN ACTIVE_POLLS' =
                                   Retire((pollSeq + 1 :>
                                             PollInfo(handler, correct_idx,
                                                      sess.correct + sess.wrong + 1,
                                                      sess.until))
                                          @@ ACTIVE_POLLS, handler)
                         ELSE \* KeyError: BLITZ_SESSIONS[tg_user_id]
                              /\ correct_idx = 0
                              /\ UNCHANGED ACTIVE_POLLS
                 ELSE /\ QUIZ_SESSIONS' = QuizSessionAfterPoll(QUIZ_SESSIONS, handler.user,
                                                               handler.question_num)
                      /\ ACTIVE_POLLS' =
                           Retire((pollSeq + 1 :>
                                     PollInfo(handler, correct_idx,
                                              handler.question_num, 0))
                                  @@ ACTIVE_POLLS, handler)
    /\ UNCHANGED <<mathVars, bookVars, reviewVars, LAST_ASKED, BLITZ_SESSIONS, startSeq, jobs, summaries>>

\* the call the handler awaits raises (stop_poll failures are caught, so an
\* on_poll_answer handler cannot fail before its pick)
handler_raises ==
    /\ handler # Idle
    /\ \/ handler.pc \in {"no_words", "send_poll"}
       \/ handler.pc = "pick" /\ handler.op # "on_poll_answer"
    /\ handler' = Idle
    /\ UNCHANGED <<mathVars, bookVars, reviewVars, LAST_ASKED, BLITZ_SESSIONS, QUIZ_SESSIONS, ACTIVE_POLLS,
                   pollSeq, startSeq, jobs, summaries>>

\* blitz_time_up_job up to its await: no session, or the summary is computed
job_fires(j) ==
    /\ j \in DOMAIN jobs
    /\ jobs[j].pc = "scheduled"
    /\ LET tg_id == jobs[j].tg_id
       IN IF tg_id \notin DOMAIN BLITZ_SESSIONS
          THEN jobs' = [jobs EXCEPT ![j].pc = "returned"]
          ELSE jobs' = [jobs EXCEPT ![j].pc = "sending",
                                    ![j].correct = BLITZ_SESSIONS[tg_id].correct,
                                    ![j].wrong = BLITZ_SESSIONS[tg_id].wrong,
                                    ![j].until = BLITZ_SESSIONS[tg_id].until]
    /\ UNCHANGED <<reviewVars, LAST_ASKED, BLITZ_SESSIONS, QUIZ_SESSIONS, ACTIVE_POLLS,
                   pollSeq, startSeq, handler, summaries>>

\* the summary was sent: the session is popped
job_sent(j) ==
    /\ j \in DOMAIN jobs
    /\ jobs[j].pc = "sending"
    /\ summaries' = Append(summaries, [tg_id |-> jobs[j].tg_id, until |-> jobs[j].until,
                                       correct |-> jobs[j].correct,
                                       wrong |-> jobs[j].wrong])
    /\ BLITZ_SESSIONS' = Remove(BLITZ_SESSIONS, jobs[j].tg_id)
    /\ jobs' = [jobs EXCEPT ![j].pc = "done"]
    /\ UNCHANGED <<reviewVars, LAST_ASKED, QUIZ_SESSIONS, ACTIVE_POLLS, pollSeq,
                   startSeq, handler>>

\* send_message raised: the job ends before its pop
job_send_raises(j) ==
    /\ j \in DOMAIN jobs
    /\ jobs[j].pc = "sending"
    /\ jobs' = [jobs EXCEPT ![j].pc = "raised"]
    /\ UNCHANGED <<reviewVars, LAST_ASKED, BLITZ_SESSIONS, QUIZ_SESSIONS, ACTIVE_POLLS,
                   pollSeq, startSeq, handler, summaries>>

\* the database the bot starts on: every word belongs to user 1, ungrouped, due
PollsStore == [w \in WordIds |-> NewWordRow(1, NoGroup, 0)]

PollsSpecInit ==
    /\ today = 0
    /\ words = PollsStore
    /\ wordSeq = MaxWords
    /\ stats = [k \in Users \X StatActions |-> 0]
    /\ points = [u \in Users |-> 0]
    /\ WORDS_CACHE = << >>
    /\ answered = [w \in WordIds |-> 0]
    /\ PollsInit
    /\ MathInit
    /\ BookInit

\* the group a user has selected before starting: none, in these runs
SelectedGroups == {NoGroup}

BlitzStartStep ==
    /\ \E u \in Users, data \in {"cancel", "minutes"}, g \in SelectedGroups : blitz_start_cb(u, data, g)
    /\ UNCHANGED <<mathVars, bookVars>>
GroupSelectStep ==
    /\ \E u \in Users, g \in SelectedGroups : group_select_cb(u, g)
    /\ UNCHANGED <<mathVars, bookVars>>
PollAnswerStep ==
    /\ \E u \in Users, p \in 1 .. MaxPolls, chosen \in ShuffleOutcomes \cup {NoOption} : on_poll_answer(u, p, chosen)
    /\ UNCHANGED <<mathVars, bookVars>>
JobFiresStep ==
    /\ \E j \in 1 .. MaxStarts : job_fires(j)
    /\ UNCHANGED <<mathVars, bookVars>>
JobSentStep ==
    /\ \E j \in 1 .. MaxStarts : job_sent(j)
    /\ UNCHANGED <<mathVars, bookVars>>
JobSendRaisesStep ==
    /\ \E j \in 1 .. MaxStarts : job_send_raises(j)
    /\ UNCHANGED <<mathVars, bookVars>>

PollsNext ==
    \/ BlitzStartStep
    \/ GroupSelectStep
    \/ PollAnswerStep
    \/ send_poll_pick
    \/ send_poll_no_words
    \/ send_poll_sent
    \/ handler_raises
    \/ JobFiresStep
    \/ JobSentStep
    \/ JobSendRaisesStep

SpecPolls == PollsSpecInit /\ [][PollsNext]_vars

\* the blitz flow alone: no quiz is started
BlitzNext ==
    \/ BlitzStartStep
    \/ PollAnswerStep
    \/ send_poll_pick
    \/ send_poll_no_words
    \/ send_poll_sent
    \/ handler_raises
    \/ JobFiresStep
    \/ JobSentStep
    \/ JobSendRaisesStep

SpecBlitz == PollsSpecInit /\ [][BlitzNext]_vars

(* ------------------------------ math quiz ------------------------------- *)
OptionLetters == <<"A", "B", "C", "D">>
ControlNext == "Keyingi Savol"
ControlQuit == "Testni Tugatish"
SecretCode == "0107"
OtherText == "?"

\* the quiz lengths offered, cut to the smallest one
QuizSizes == {SmallestQuiz}
\* the user who plays the math quiz in these runs
QuizUsers == {1}

RECURSIVE Gcd(_, _)
Gcd(a, b) == IF b = 0 THEN a ELSE Gcd(b, a % b)

\* a REAL value n / d, kept in lowest terms so that equal values are equal records
Real(n, d) == LET g == Gcd(n, d) IN [num |-> n \div g, den |-> d \div g]
Zero == Real(0, 1)
Less(a, b) == a.num * b.den < b.num * a.den
RealMax(a, b) == IF Less(a, b) THEN b ELSE a

\* a variant that drops the fraction of the quotient
PercentageFloor(correct, total) ==
    IF total > 0 THEN Real((100 * correct) \div total, 1) ELSE Zero

\* (correct / total * 100) if total > 0 else 0
Percentage(correct, total) ==
    IF total > 0 THEN Real(100 * correct, total) ELSE Zero

Put(f, k, v) == [x \in DOMAIN f \cup {k} |-> IF x = k THEN v ELSE f[x]]

\* generate_quiz_session: the sample of num questions, each named by its place
\* in the sample; the shuffles put every correct answer first, or every one last
QuizSamples(num) ==
    {[i \in 1 .. num |-> [key |-> i, correct_idx |-> p]] : p \in ShuffleOutcomes}

\* MathQuiz.check_answer: is the selected option the correct answer
check_answer(question, selected_option_index) ==
    selected_option_index = question.correct_idx

NewQuizData(session_id, questions) ==
    [session_id |-> session_id, questions |-> questions, current_index |-> 0,
     correct_count |-> 0, wrong_count |-> 0, score |-> 0, answered |-> 0]

\* create_quiz_session: the row inserted, with the columns' defaults
NewSessionRow(user_id, total_questions) ==
    [user_id |-> user_id, total_questions |-> total_questions, correct_count |-> 0,
     wrong_count |-> 0, percentage |-> Zero, status |-> "in_progress"]

\* unlock_user: INSERT OR IGNORE a row of defaults, then set is_unlocked
unlock_user(tbl, user_id) ==
    IF user_id \in DOMAIN tbl
    THEN [tbl EXCEPT ![user_id].is_unlocked = TRUE]
    ELSE Put(tbl, user_id,
             [total_sessions |-> 0, total_questions |-> 0, total_correct |-> 0,
              total_wrong |-> 0, average_percentage |-> Zero, best_score |-> Zero,
              best_session_id |-> NoSession, is_unlocked |-> TRUE])

is_user_unlocked(tbl, user_id) == user_id \in DOMAIN tbl /\ tbl[user_id].is_unlocked

\* _update_question_stats: upsert the (user, question) row and recompute accuracy
update_question_stats(tbl, user_id, key, is_correct) ==
    LET k == <<user_id, key>>
        total == IF k \in DOMAIN tbl THEN tbl[k].total_attempts + 1 ELSE 1
        correct == (IF k \in DOMAIN tbl THEN tbl[k].correct_attempts ELSE 0)
                      + (IF is_correct THEN 1 ELSE 0)
    IN Put(tbl, k, [total_attempts |-> total, correct_attempts |-> correct,
                    accuracy |-> Percentage(correct, total)])

\* finish_quiz_session: the session row after its UPDATE
FinishedRow(row, correct_count, wrong_count) ==
    [row EXCEPT !.correct_count = correct_count,
                !.wrong_count = wrong_count,
                !.percentage = Percentage(correct_count, correct_count + wrong_count),
                !.status = "completed"]

\* finish_quiz_session: the best_session_id written to math_user_stats
BestSession(prev, session_id, percentage) ==
    LET new_best == RealMax(prev.best_score, percentage)
    IN IF Less(Zero, prev.best_score) /\ Less(percentage, new_best)
       THEN prev.best_session_id
       ELSE IF percentage = new_best THEN session_id ELSE NoSession

\* a variant that counts every question of the sample, answered or not
FoldStatsWholeSample(prev, session_id, correct_count, wrong_count) ==
    LET total == SmallestQuiz
        percentage == Percentage(correct_count, correct_count + wrong_count)
        new_questions == prev.total_questions + total
        new_correct == prev.total_correct + correct_count
    IN [prev EXCEPT !.total_sessions = @ + 1,
                    !.total_questions = new_questions,
                    !.total_correct = new_correct,
                    !.total_wrong = @ + wrong_count,
                    !.average_percentage = Percentage(new_correct, new_questions),
                    !.best_score = RealMax(prev.best_score, percentage),
                    !.best_session_id = BestSession(prev, session_id, percentage)]

\* a variant that keeps the latest session's percentage as the best score
FoldStatsLatestBest(prev, session_id, correct_count, wrong_count) ==
    LET total == correct_count + wrong_count
        percentage == Percentage(correct_count, total)
        new_questions == prev.total_questions + total
        new_correct == prev.total_correct + correct_count
    IN [prev EXCEPT !.total_sessions = @ + 1,
                    !.total_questions = new_questions,
                    !.total_correct = new_correct,
                    !.total_wrong = @ + wrong_count,
                    !.average_percentage = Percentage(new_correct, new_questions),
                    !.best_score = percentage,
                    !.best_session_id = BestSession(prev, session_id, percentage)]

\* finish_quiz_session: the user's stats row folded with this session
FoldStats(prev, session_id, correct_count, wrong_count) ==
    LET total == correct_count + wrong_count
        percentage == Percentage(correct_count, total)
        new_questions == prev.total_questions + total
        new_correct == prev.total_correct + correct_count
    IN [prev EXCEPT !.total_sessions = @ + 1,
                    !.total_questions = new_questions,
                    !.total_correct = new_correct,
                    !.total_wrong = @ + wrong_count,
                    !.average_percentage = Percentage(new_correct, new_questions),
                    !.best_score = RealMax(prev.best_score, percentage),
                    !.best_session_id = BestSession(prev, session_id, percentage)]

\* finish_quiz_session: the row inserted for a user who has no stats row
FirstStats(session_id, correct_count, wrong_count) ==
    LET total == correct_count + wrong_count
        percentage == Percentage(correct_count, total)
    IN [total_sessions |-> 1, total_questions |-> total, total_correct |-> correct_count,
        total_wrong |-> wrong_count, average_percentage |-> percentage,
        best_score |-> percentage, best_session_id |-> session_id, is_unlocked |-> TRUE]

UserStatsAfter(tbl, user_id, session_id, correct_count, wrong_count) ==
    IF user_id \in DOMAIN tbl
    THEN [tbl EXCEPT ![user_id] = FoldStats(@, session_id, correct_count, wrong_count)]
    ELSE Put(tbl, user_id, FirstStats(session_id, correct_count, wrong_count))

\* finish_quiz_session: the dictionary returned
Results(session_id, correct_count, wrong_count, final_row) ==
    [session_id |-> session_id, correct |-> correct_count, wrong |-> wrong_count,
     percentage |-> Percentage(correct_count, correct_count + wrong_count),
     total_sessions |-> final_row.total_sessions,
     total_questions |-> final_row.total_questions,
     total_correct |-> final_row.total_correct,
     average_percentage |-> final_row.average_percentage,
     best_score |-> final_row.best_score]

finish_quiz_session(session_id, correct_count, wrong_count) ==
    LET user_id == math_quiz_sessions[session_id].user_id
        after == UserStatsAfter(math_user_stats, user_id, session_id,
                                correct_count, wrong_count)
    IN /\ math_quiz_sessions' =
              [math_quiz_sessions EXCEPT
                  ![session_id] = FinishedRow(@, correct_count, wrong_count)]
       /\ math_user_stats' = after
       /\ quiz_results' = Append(quiz_results,
              Results(session_id, correct_count, wrong_count, after[user_id]))

\* the handler answers the user with a message of this kind and changes nothing else
Answers(u, kind) ==
    /\ reply' = [reply EXCEPT ![u] = kind]
    /\ UNCHANGED <<math_quiz_session, math_quiz_sessions, math_quiz_answers,
                   math_question_stats, math_user_stats, quiz_results, shown>>

\* process_code with the right code
process_code(u) ==
    /\ math_user_stats' = unlock_user(math_user_stats, u)
    /\ reply' = [reply EXCEPT ![u] = "unlocked"]
    /\ UNCHANGED <<math_quiz_session, math_quiz_sessions, math_quiz_answers,
                   math_question_stats, quiz_results, shown>>

\* finish_quiz: the session is cleared after the results message was sent; when
\* sending raises, the caller catches it and the session stays
finish_quiz(u) ==
    IF u \notin DOMAIN math_quiz_session
    THEN Answers(u, "not_found")
    ELSE LET quiz_data == math_quiz_session[u]
         IN /\ Len(quiz_results) < MaxFinishes
            /\ finish_quiz_session(quiz_data.session_id, quiz_data.correct_count,
                                   quiz_data.wrong_count)
            /\ \E delivered \in BOOLEAN :
                  IF delivered
                  THEN /\ math_quiz_session' = Remove(math_quiz_session, u)
                       /\ reply' = [reply EXCEPT ![u] = "results"]
                  ELSE /\ UNCHANGED math_quiz_session
                       /\ reply' = [reply EXCEPT ![u] = "error"]
            /\ UNCHANGED <<math_quiz_answers, math_question_stats, shown>>

send_next_question(u) ==
    IF u \notin DOMAIN math_quiz_session
    THEN Answers(u, "not_found")
    ELSE LET quiz_data == math_quiz_session[u]
         IN IF quiz_data.current_index >= Len(quiz_data.questions)
            THEN finish_quiz(u)
            ELSE /\ shown' = [shown EXCEPT ![u] = quiz_data.current_index]
                 /\ reply' = [reply EXCEPT ![u] = "question"]
                 /\ UNCHANGED <<math_quiz_session, math_quiz_sessions, math_quiz_answers,
                                math_question_stats, math_user_stats, quiz_results>>

process_answer(u, answer_index) ==
    IF u \notin DOMAIN math_quiz_session
    THEN Answers(u, "not_found")
    ELSE LET quiz_data == math_quiz_session[u]
             current_index == quiz_data.current_index
         IN IF current_index >= Len(quiz_data.questions)
            THEN Answers(u, "error")
            ELSE LET question == quiz_data.questions[current_index + 1]
                     is_correct == check_answer(question, answer_index)
                     user_id == math_quiz_sessions[quiz_data.session_id].user_id
                 IN /\ Len(math_quiz_answers) < MaxQuizAnswers
                    /\ math_quiz_answers' = Append(math_quiz_answers,
                          [session_id |-> quiz_data.session_id,
                           question_number |-> current_index + 1,
                           question |-> question.key,
                           is_correct |-> is_correct])
                    /\ math_question_stats' =
                          update_question_stats(math_question_stats, user_id,
                                                question.key, is_correct)
                    /\ math_quiz_session' = [math_quiz_session EXCEPT ![u] =
                          [quiz_data EXCEPT
                              !.score = IF is_correct THEN @ + 1 ELSE @,
                              !.answered = @ + 1,
                              !.correct_count = IF is_correct THEN @ + 1 ELSE @,
                              !.wrong_count = IF is_correct THEN @ ELSE @ + 1,
                              !.current_index = @ + 1]]
                    /\ reply' = [reply EXCEPT ![u] = "feedback"]
                    /\ UNCHANGED <<math_quiz_sessions, math_user_stats, quiz_results, shown>>

start_quiz(u, num_questions) ==
    IF ~is_user_unlocked(math_user_stats, u)
    THEN Answers(u, "locked")
    ELSE /\ Len(math_quiz_sessions) < MaxSessions
         /\ \E questions \in QuizSamples(num_questions) :
               LET session_id == Len(math_quiz_sessions) + 1
               IN /\ math_quiz_sessions' =
                        Append(math_quiz_sessions, NewSessionRow(u, num_questions))
                  /\ math_quiz_session' =
                        Put(math_quiz_session, u, NewQuizData(session_id, questions))
         /\ shown' = [shown EXCEPT ![u] = 0]
         /\ reply' = [reply EXCEPT ![u] = "question"]
         /\ UNCHANGED <<math_quiz_answers, math_question_stats, math_user_stats,
                        quiz_results>>

LetterIndex(txt) == CHOOSE i \in Options : OptionLetters[i + 1] = txt

\* dispatch_text forwarding a text message to handle_incoming_message
handle_incoming_message(u, txt) ==
    IF /\ u \in DOMAIN math_quiz_session
       /\ math_quiz_session[u].current_index < Len(math_quiz_session[u].questions)
    THEN CASE txt = ControlNext -> send_next_question(u)
           [] txt = ControlQuit -> finish_quiz(u)
           [] txt \in Range(OptionLetters) -> process_answer(u, LetterIndex(txt))
           [] OTHER -> Answers(u, "choose")
    ELSE IF txt = SecretCode
         THEN process_code(u)
         ELSE /\ u \in DOMAIN math_quiz_session
              /\ Answers(u, "unhandled")

math_callback_handler(u, data, arg) ==
    CASE data = "trig_quiz" -> start_quiz(u, arg)
      [] data = "trig_next_question" -> send_next_question(u)
      [] data = "trig_answer" -> process_answer(u, arg)
      [] data = "trig_quit_quiz" -> finish_quiz(u)

QuizSpecInit ==
    /\ today = 0
    /\ words = << >>
    /\ wordSeq = 0
    /\ stats = [k \in Users \X StatActions |-> 0]
    /\ points = [u \in Users |-> 0]
    /\ WORDS_CACHE = << >>
    /\ answered = [w \in WordIds |-> 0]
    /\ PollsInit
    /\ MathInit
    /\ BookInit

CodeStep ==
    /\ \E u \in QuizUsers : handle_incoming_message(u, SecretCode)
    /\ UNCHANGED <<reviewVars, pollVars, bookVars>>
StartQuizStep ==
    /\ \E u \in QuizUsers, num \in QuizSizes : math_callback_handler(u, "trig_quiz", num)
    /\ UNCHANGED <<reviewVars, pollVars, bookVars>>
TextAnswerStep ==
    /\ \E u \in QuizUsers, txt \in Range(OptionLetters) : handle_incoming_message(u, txt)
    /\ UNCHANGED <<reviewVars, pollVars, bookVars>>
TextNextStep ==
    /\ \E u \in QuizUsers : handle_incoming_message(u, ControlNext)
    /\ UNCHANGED <<reviewVars, pollVars, bookVars>>
TextQuitStep ==
    /\ \E u \in QuizUsers : handle_incoming_message(u, ControlQuit)
    /\ UNCHANGED <<reviewVars, pollVars, bookVars>>
TextOtherStep ==
    /\ \E u \in QuizUsers : handle_incoming_message(u, OtherText)
    /\ UNCHANGED <<reviewVars, pollVars, bookVars>>
CallbackAnswerStep ==
    /\ \E u \in QuizUsers, i \in Options : math_callback_handler(u, "trig_answer", i)
    /\ UNCHANGED <<reviewVars, pollVars, bookVars>>
CallbackNextStep ==
    /\ \E u \in QuizUsers : math_callback_handler(u, "trig_next_question", 0)
    /\ UNCHANGED <<reviewVars, pollVars, bookVars>>
CallbackQuitStep ==
    /\ \E u \in QuizUsers : math_callback_handler(u, "trig_quit_quiz", 0)
    /\ UNCHANGED <<reviewVars, pollVars, bookVars>>

QuizNext ==
    \/ CodeStep
    \/ StartQuizStep
    \/ TextNextStep
    \/ TextQuitStep
    \/ TextAnswerStep
    \/ TextOtherStep
    \/ CallbackAnswerStep
    \/ CallbackNextStep
    \/ CallbackQuitStep

SpecQuiz == QuizSpecInit /\ [][QuizNext]_vars

\* process_answer when save_quiz_answer raises: check_answer has already
\* counted the answer in the quiz object; the INSERT is committed or not
\* according to the statement that failed; handle_incoming_message catches
\* the exception and replies with the error
process_answer_save_raises(u, answer_index) ==
    /\ u \in DOMAIN math_quiz_session
    /\ math_quiz_session[u].current_index < Len(math_quiz_session[u].questions)
    \* the run is explored up to MaxFailures failed saves
    /\ math_quiz_session[u].answered - math_quiz_session[u].current_index < MaxFailures
    /\ LET quiz_data == math_quiz_session[u]
           question == quiz_data.questions[quiz_data.current_index + 1]
           is_correct == check_answer(question, answer_index)
       IN /\ math_quiz_session' = [math_quiz_session EXCEPT ![u] =
                [quiz_data EXCEPT !.score = IF is_correct THEN @ + 1 ELSE @,
                                  !.answered = @ + 1]]
          /\ \E committed \in BOOLEAN :
                IF committed
                THEN /\ Len(math_quiz_answers) < MaxQuizAnswers
                     /\ math_quiz_answers' = Append(math_quiz_answers,
                           [session_id |-> quiz_data.session_id,
                            question_number |-> quiz_data.current_index + 1,
                            question |-> question.key,
                            is_correct |-> is_correct])
                ELSE UNCHANGED math_quiz_answers
    /\ reply' = [reply EXCEPT ![u] = "error"]
    /\ UNCHANGED <<math_quiz_sessions, math_question_stats, math_user_stats,
                   quiz_results, shown>>

AnswerRaisesStep ==
    /\ \E u \in QuizUsers, i \in Options : process_answer_save_raises(u, i)
    /\ UNCHANGED <<reviewVars, pollVars, bookVars>>

\* a quiz in which saving an answer can fail
RetryNext ==
    \/ CodeStep
    \/ StartQuizStep
    \/ TextAnswerStep
    \/ TextNextStep
    \/ AnswerRaisesStep

SpecRetry == QuizSpecInit /\ [][RetryNext]_vars

(* ------------------------ words, groups and the cache ------------------- *)
\* ADMIN_IDS is unset and no user has the admin role
ADMIN_IDS == {}
is_admin(tg_id) == tg_id \in ADMIN_IDS

is_group_owner(user_id, group_id) ==
    group_id \in DOMAIN groups /\ groups[group_id].owner_id = user_id

\* the rows of table ws with the ids kept
Rows(ws, kept) == [w \in kept |-> ws[w]]

delete_all_words(user_id, group_id) ==
    /\ group_id # NoGroup => is_group_owner(user_id, group_id)
    /\ words' = Rows(words, {w \in DOMAIN words :
                               IF group_id # NoGroup
                               THEN words[w].group_id # group_id
                               ELSE words[w].user_id # user_id})
    /\ WORDS_CACHE' = << >>
    /\ UNCHANGED <<today, wordSeq, stats, points, answered>>

admin_delete_word(word_id) ==
    /\ word_id \in DOMAIN words
    /\ words' = Remove(words, word_id)
    /\ WORDS_CACHE' = << >>
    /\ UNCHANGED <<today, wordSeq, stats, points, answered>>

delete_group_word(word_id, group_id, requester_id) ==
    /\ is_group_owner(requester_id, group_id) \/ is_admin(requester_id)
    /\ words' = Rows(words, {w \in DOMAIN words :
                               ~(w = word_id /\ words[w].group_id = group_id)})
    /\ WORDS_CACHE' = << >>
    /\ UNCHANGED <<today, wordSeq, stats, points, answered>>

delete_group(group_id, requester_id) ==
    /\ group_id \in DOMAIN groups
    /\ groups[group_id].owner_id = requester_id \/ is_admin(requester_id)
    /\ words' = Rows(words, {w \in DOMAIN words : words[w].group_id # group_id})
    /\ users_groups' = {m \in users_groups : m[2] # group_id}
    /\ groups' = Remove(groups, group_id)
    /\ WORDS_CACHE' = << >>
    /\ GROUPS_CACHE' = << >>
    /\ UNCHANGED <<today, wordSeq, stats, points, answered, groupSeq>>

\* a variant in which the INSERT into stats outlives the failure
record_stat_insert_stays(user_id, action, word_id) ==
    /\ stats' = InsertStat(stats, user_id, action)
    /\ WORDS_CACHE' = StatCache(WORDS_CACHE, words, action, word_id)
    /\ UNCHANGED <<today, words, wordSeq, points, answered>>

\* record_stat when the commit that ends its with block raises: the writes of
\* the transaction are rolled back, a clear() already made inside the block stays
record_stat_commit_raises(user_id, action, word_id) ==
    /\ WORDS_CACHE' = StatCache(WORDS_CACHE, words, action, word_id)
    /\ UNCHANGED <<today, words, wordSeq, stats, points, answered>>

\* send_quiz_poll from its pick_user_word call to its LAST_ASKED assignment;
\* with no word to ask LAST_ASKED stays
send_quiz_poll_word(db_user_id, group_id) ==
    LET cache == PickCache(WORDS_CACHE, words, db_user_id, group_id, today)
        choices == PickChoices(cache, LAST_ASKED, db_user_id, group_id)
    IN /\ WORDS_CACHE' = cache
       /\ IF choices = {}
          THEN UNCHANGED LAST_ASKED
          ELSE \E w \in choices :
                  LAST_ASKED' = (<<db_user_id, group_id>> :> w) @@ LAST_ASKED
       /\ UNCHANGED <<today, words, wordSeq, stats, points, answered>>

Min(a, b) == IF a <= b THEN a ELSE b

\* the words an earlier run left, all of user 1 and one correct answer short
\* of a promotion: added before groups and scheduling existed (no group,
\* next_review NULL), or in group 1 and due
CacheRows ==
    {[user_id |-> 1, group_id |-> g, review_level |-> 0,
      next_review |-> IF g = NoGroup THEN NULL ELSE 0,
      correct_count |-> PromoteAt - 1, wrong_count |-> 0] : g \in Groups}

StoredIds == 1 .. MaxStored

\* the process starts with empty caches on a store of up to MaxStored words;
\* group 1 exists and user 1 owns it
CacheInit ==
    /\ today = 0
    /\ \E k \in 0 .. MaxStored :
          /\ wordSeq = k
          /\ \E rows \in [1 .. k -> CacheRows] : words = rows
    /\ stats = [k \in Users \X StatActions |-> 0]
    /\ points = [u \in Users |-> 0]
    /\ WORDS_CACHE = << >>
    /\ answered = [w \in StoredIds |->
                      IF w \in DOMAIN words THEN words[w].correct_count ELSE 0]
    /\ PollsInit
    /\ MathInit
    /\ groups = [g \in Groups \ {NoGroup} |-> [owner_id |-> 1, name |-> "a"]]
    /\ users_groups = {<<1, g>> : g \in Groups \ {NoGroup}}
    /\ GROUPS_CACHE = << >>
    /\ groupSeq = Cardinality(Groups \ {NoGroup})
    /\ selected_group \in Groups
    /\ uzbek = [w \in StoredIds |-> "mushuk"]
    /\ cache_reads = NoReads
    /\ distractors = NoCall
    /\ line = << >>
    /\ parsed = NotParsed
    /\ imported = NoImport

\* the user who takes quizzes in these runs
Askers == {1}

CacheFrame ==
    UNCHANGED <<pollVars, mathVars, groups, memberVars, parseVars, selected_group,
                   uzbek, cache_reads, distractors>>

CacheAddStep ==
    /\ \E u \in Askers, g \in Groups : add_word(u, g)
    /\ CacheFrame
CacheDeleteStep ==
    /\ \E w \in StoredIds, u \in Askers : delete_word_if_owner(w, u)
    /\ CacheFrame
CacheDeleteAllStep ==
    /\ \E u \in Askers, g \in Groups : delete_all_words(u, g)
    /\ CacheFrame
CacheAdminDeleteStep ==
    /\ \E w \in StoredIds : admin_delete_word(w)
    /\ CacheFrame
CacheDeleteGroupWordStep ==
    /\ \E w \in StoredIds, g \in Groups \ {NoGroup}, u \in Askers : delete_group_word(w, g, u)
    /\ CacheFrame
CacheDeleteGroupStep ==
    /\ \E g \in Groups \ {NoGroup}, u \in Askers : delete_group(g, u)
    /\ UNCHANGED <<pollVars, mathVars, parseVars, selected_group, uzbek, cache_reads, distractors>>
CacheAnswerStep ==
    /\ \E u \in Askers, a \in {"correct", "wrong"}, w \in StoredIds :
          /\ <<u, selected_group>> \in DOMAIN LAST_ASKED
          /\ w = LAST_ASKED[<<u, selected_group>>]
          /\ Answer(u, a, w, FALSE)
    /\ CacheFrame
CacheAnswerRaisesStep ==
    /\ \E u \in Askers, a \in {"correct", "wrong"}, w \in StoredIds :
          /\ <<u, selected_group>> \in DOMAIN LAST_ASKED
          /\ w = LAST_ASKED[<<u, selected_group>>]
          /\ record_stat_commit_raises(u, a, w)
    /\ CacheFrame
CacheMidnightStep ==
    /\ Midnight
    /\ CacheFrame
CacheQuestionStep ==
    /\ \E u \in Askers :
          /\ send_quiz_poll_word(u, selected_group)
    /\ UNCHANGED <<BLITZ_SESSIONS, QUIZ_SESSIONS, ACTIVE_POLLS, pollSeq, startSeq, jobs,
                   handler, summaries, mathVars, groups, memberVars, parseVars, selected_group,
                   uzbek,
                   cache_reads, distractors>>

CacheNext ==
    \/ CacheAddStep
    \/ CacheDeleteStep
    \/ CacheDeleteAllStep
    \/ CacheAdminDeleteStep
    \/ CacheDeleteGroupWordStep
    \/ CacheDeleteGroupStep
    \/ CacheAnswerStep
    \/ CacheAnswerRaisesStep
    \/ CacheMidnightStep
    \/ CacheQuestionStep

SpecCache == CacheInit /\ [][CacheNext]_vars

(* ------------------------ cache reads and reloads ----------------------- *)
Count(f, k) == IF k \in DOMAIN f THEN f[k] ELSE 0

\* after a clear() call: one more in a row when nothing was read since the last
Cleared(h) ==
    [clears |-> IF h.reads = << >> THEN Min(h.clears + 1, 2) ELSE 1,
     reads |-> << >>, loads |-> << >>, rolled_back |-> h.rolled_back]

\* after a clear() call made inside a transaction that was then rolled back
RolledBack(h) == [Cleared(h) EXCEPT !.rolled_back = TRUE]

\* after pick_user_word has read key, from the store when miss
Read(h, key, miss) ==
    [h EXCEPT !.reads = Put(@, key, Min(Count(@, key) + 1, 2)),
              !.loads = Put(@, key, Min(Count(@, key) + (IF miss THEN 1 ELSE 0), 2)),
              !.rolled_back = FALSE]

\* does this call of record_stat reach a clear()
StatClears(action, word_id) ==
    word_id \in DOMAIN words /\ StatClearsCache(words[word_id], action)

ReloadFrame == UNCHANGED <<pollVars, mathVars, groups, memberVars, parseVars, selected_group,
                   uzbek, distractors>>

\* a bulk clear by any user: of the asker's words, or of no word at all
ReloadClearStep ==
    /\ \E u \in Users, g \in Groups : delete_all_words(u, g)
    /\ cache_reads' = Cleared(cache_reads)
    /\ ReloadFrame
ReloadAnswerStep ==
    /\ \E u \in Askers, a \in {"correct", "wrong"}, w \in StoredIds :
          /\ <<u, selected_group>> \in DOMAIN LAST_ASKED
          /\ w = LAST_ASKED[<<u, selected_group>>]
          /\ Answer(u, a, w, FALSE)
          /\ cache_reads' = IF StatClears(a, w) THEN Cleared(cache_reads) ELSE cache_reads
    /\ ReloadFrame
ReloadAnswerRaisesStep ==
    /\ \E u \in Askers, a \in {"correct", "wrong"}, w \in StoredIds :
          /\ <<u, selected_group>> \in DOMAIN LAST_ASKED
          /\ w = LAST_ASKED[<<u, selected_group>>]
          /\ record_stat_commit_raises(u, a, w)
          /\ cache_reads' = IF StatClears(a, w) THEN RolledBack(cache_reads)
                                                ELSE cache_reads
    /\ ReloadFrame
ReloadMidnightStep ==
    /\ Midnight
    /\ UNCHANGED cache_reads
    /\ ReloadFrame
ReloadQuestionStep ==
    /\ \E u \in Askers :
          /\ send_quiz_poll_word(u, selected_group)
          /\ cache_reads' = Read(cache_reads, <<u, selected_group>>,
                                 <<u, selected_group>> \notin DOMAIN WORDS_CACHE)
    /\ UNCHANGED <<BLITZ_SESSIONS, QUIZ_SESSIONS, ACTIVE_POLLS, pollSeq, startSeq, jobs,
                   handler, summaries, mathVars, groups, memberVars, parseVars, selected_group,
                   uzbek,
                   distractors>>

ReloadNext ==
    \/ ReloadClearStep
    \/ ReloadAnswerStep
    \/ ReloadAnswerRaisesStep
    \/ ReloadMidnightStep
    \/ ReloadQuestionStep

SpecReload == CacheInit /\ [][ReloadNext]_vars

(* ------------------------------ distractors ----------------------------- *)
Texts == {"mushuk", "it"}
placeholders == <<"nomuvofiq", "aniq emas", "bog'liq emas", "bilinmaydi">>

\* the rows of the scope other than the correct word's
OtherRows(user_id, correct_word_id, group_id) ==
    {w \in DOMAIN words :
        /\ w # correct_word_id
        /\ IF group_id # NoGroup THEN words[w].group_id = group_id
                                 ELSE words[w].user_id = user_id}

\* the one-to-one lists of n elements of S: what ORDER BY RANDOM() LIMIT n gives
Draws(S, n) ==
    {s \in [1 .. n -> S] : \A i, j \in 1 .. n : s[i] = s[j] => i = j}

\* a variant that leaves out the id<>? condition of the SELECT
get_distractors_any_row(user_id, correct_word_id, needed, group_id) ==
    LET others == OtherRows(user_id, NoWord, group_id)
        n == Min(Cardinality(others), Max(needed, 0))
    IN {[i \in 1 .. needed |-> IF i <= n THEN uzbek[s[i]] ELSE p[i - n]] :
           s \in Draws(others, n), p \in [1 .. needed - n -> Range(placeholders)]}

\* the lists get_distractors may return (needed is 3 at every call)
get_distractors(user_id, correct_word_id, needed, group_id) ==
    LET others == OtherRows(user_id, correct_word_id, group_id)
        n == Min(Cardinality(others), Max(needed, 0))
    IN {[i \in 1 .. needed |-> IF i <= n THEN uzbek[s[i]] ELSE p[i - n]] :
           s \in Draws(others, n), p \in [1 .. needed - n -> Range(placeholders)]}

\* send_quiz_poll building the options for the word it picked
send_quiz_poll_options(db_user_id, word_id, group_id) ==
    /\ word_id \in Range(EligibleRows(words, db_user_id, group_id, today))
    /\ \E opts \in get_distractors(db_user_id, word_id, NumOptions - 1, group_id) :
          distractors' = [correct_word_id |-> word_id, group_id |-> group_id,
                          opts |-> opts]

ScopeIds == 1 .. MaxScope

\* a store of 1 to MaxScope words of user 1, each in no group or in group 1 and
\* due, with any of the translations
ScopeInit ==
    /\ today = 0
    /\ \E k \in 1 .. MaxScope :
          /\ wordSeq = k
          /\ \E gs \in [1 .. k -> Groups] :
                words = [w \in 1 .. k |-> NewWordRow(1, gs[w], 0)]
          /\ uzbek \in [1 .. k -> Texts]
    /\ stats = [k \in Users \X StatActions |-> 0]
    /\ points = [u \in Users |-> 0]
    /\ WORDS_CACHE = << >>
    /\ answered = [w \in ScopeIds |-> 0]
    /\ PollsInit
    /\ MathInit
    /\ groups = [g \in Groups \ {NoGroup} |-> [owner_id |-> 1, name |-> "a"]]
    /\ users_groups = {<<1, g>> : g \in Groups \ {NoGroup}}
    /\ GROUPS_CACHE = << >>
    /\ groupSeq = Cardinality(Groups \ {NoGroup})
    /\ selected_group = NoGroup
    /\ cache_reads = NoReads
    /\ distractors = NoCall
    /\ line = << >>
    /\ parsed = NotParsed
    /\ imported = NoImport

OptionsStep ==
    /\ \E u \in Askers, w \in ScopeIds, g \in Groups : send_quiz_poll_options(u, w, g)
    /\ UNCHANGED <<reviewVars, pollVars, mathVars, groups, memberVars, parseVars, selected_group,
                   uzbek,
                   cache_reads>>

DistractorsNext == OptionsStep

SpecDistractors == ScopeInit /\ [][DistractorsNext]_vars

(* ------------------------- blitz session claims ------------------------ *)
\* an answer of user u to poll p that on_poll_answer scores
ScoredAnswer(u, p) == \E chosen \in ShuffleOutcomes : on_poll_answer(u, p, chosen)

\* the timer has delivered the summary of u's session with deadline k and popped it
Finalized(u, k) ==
    \E i \in DOMAIN summaries : summaries[i].tg_id = u /\ summaries[i].until = k

\* a timer run has read u's session with deadline k: its finalize has started
FinalizeStarted(u, k) ==
    \E j \in DOMAIN jobs : /\ jobs[j].tg_id = u
                            /\ jobs[j].until = k
                            /\ jobs[j].pc \in {"sending", "done", "raised"}

\* C4: once the timer has finalized a blitz session, an answer to a poll of
\* that session changes no session counter and creates no session.
C4_FinalizedRejects ==
    [][\A p \in DOMAIN ACTIVE_POLLS :
         LET info == ACTIVE_POLLS[p]
         IN (/\ info.is_blitz
             /\ Finalized(info.tg_user_id, info.sess)
             /\ ScoredAnswer(info.tg_user_id, p))
            => BLITZ_SESSIONS' = BLITZ_SESSIONS
      ]_vars

\* C5: an answer to a poll of a blitz session whose finalize has started
\* records no stat event and changes no points, no word and no session.
C5_LateAnswerIgnored ==
    [][\A p \in DOMAIN ACTIVE_POLLS :
         LET info == ACTIVE_POLLS[p]
         IN (/\ info.is_blitz
             /\ FinalizeStarted(info.tg_user_id, info.sess)
             /\ ScoredAnswer(info.tg_user_id, p))
            => /\ stats' = stats
               /\ points' = points
               /\ words' = words
               /\ BLITZ_SESSIONS' = BLITZ_SESSIONS
      ]_vars

OneSummaryEach ==
    \A i, j \in DOMAIN summaries :
        (summaries[i].tg_id = summaries[j].tg_id /\ summaries[i].until = summaries[j].until)
            => i = j

\* C6: finalizing is idempotent: no session gets two summaries, and a timer
\* that finds no session changes nothing but its own run.
C6_FinalizeOnce ==
    [][/\ OneSummaryEach'
       /\ \A j \in DOMAIN jobs :
            (job_fires(j) /\ jobs[j].tg_id \notin DOMAIN BLITZ_SESSIONS)
                => UNCHANGED <<reviewVars, LAST_ASKED, BLITZ_SESSIONS, QUIZ_SESSIONS,
                               ACTIVE_POLLS, pollSeq, startSeq, handler, summaries>>
      ]_vars

JobEnded(job) == job.pc \in {"returned", "done", "raised"}

\* C7: a started session is finalized and removed once its deadline timer
\* fires: when a run of blitz_time_up_job ends, its user has no session left
\* in BLITZ_SESSIONS.
C7_TimerRemoves ==
    [][\A j \in DOMAIN jobs :
         (~JobEnded(jobs[j]) /\ JobEnded(jobs'[j]))
            => jobs[j].tg_id \notin DOMAIN BLITZ_SESSIONS'
      ]_vars

(* ------------------------- review scheduler claims ---------------------- *)
CorrectOn(w) == \E u \in Users, b \in BOOLEAN : Answer(u, "correct", w, b)
WrongOn(w) == \E u \in Users, b \in BOOLEAN : Answer(u, "wrong", w, b)

\* the offsets the specification tabulates: 1, 3, 10, 30 days for L = 0, 1, 2, >= 3
SpecOffset(L) == CASE L = 0 -> 1 [] L = 1 -> 3 [] L = 2 -> 10 [] OTHER -> 30

\* C1: from level L with a streak of 0, the first correct answer keeps the
\* level and makes the streak 1, and the next correct answer (with no wrong
\* answer in between, so the streak is still 1) leaves the word at level L+1,
\* streak 0, wrong_count 0 and next_review = today + offset(L).
C1_TwoCorrectPromote ==
    [][\A w \in DOMAIN words :
         CorrectOn(w) =>
            /\ words[w].correct_count = 0 =>
                  /\ words'[w].review_level = words[w].review_level
                  /\ words'[w].correct_count = 1
            /\ (words[w].correct_count = 1 /\ answered[w] = 1) =>
                  /\ words'[w].review_level = words[w].review_level + 1
                  /\ words'[w].correct_count = 0
                  /\ words'[w].wrong_count = 0
                  /\ words'[w].next_review = today + SpecOffset(words[w].review_level)
      ]_vars

\* a word an earlier run left at level 2 with streak 0 was answered correctly
\* twice in this run and stands at level 3, due 10 days from today
C1_Witness ==
    /\ 1 \in DOMAIN words
    /\ stats[<<1, "added">>] + stats[<<2, "added">>] = 0
    /\ stats[<<1, "correct">>] + stats[<<2, "correct">>] = 2
    /\ stats[<<1, "wrong">>] + stats[<<2, "wrong">>] = 0
    /\ words[1].review_level = 3
    /\ words[1].next_review = today + 10
    /\ words[1].correct_count = 0

\* C2: a wrong answer on an existing word leaves it at level 0, due today,
\* with streak 0 and wrong_count 0, whatever the row held before.
C2_WrongResets ==
    [][\A w \in DOMAIN words :
         WrongOn(w) =>
            /\ words'[w].review_level = 0
            /\ words'[w].next_review = today
            /\ words'[w].correct_count = 0
            /\ words'[w].wrong_count = 0
      ]_vars

\* a word of an earlier run (never due on day 1 before) was reset on day 1
C2_Witness ==
    /\ wordSeq = 1 /\ 1 \in DOMAIN words
    /\ stats[<<1, "added">>] + stats[<<2, "added">>] = 0
    /\ stats[<<1, "wrong">>] + stats[<<2, "wrong">>] >= 1
    /\ today = 1
    /\ words[1].review_level = 0
    /\ words[1].next_review = 1

\* C3: the level of a word rises only by 1 and only at a correct answer that
\* is the second in a row since its last promotion or reset; every wrong
\* answer sets it to 0; no other step changes it.
C3_LevelSteps ==
    [][\A w \in DOMAIN words \cap DOMAIN words' :
         /\ words'[w].review_level > words[w].review_level =>
               /\ words'[w].review_level = words[w].review_level + 1
               /\ CorrectOn(w)
               /\ answered[w] = 1
         /\ WrongOn(w) => words'[w].review_level = 0
         /\ words'[w].review_level < words[w].review_level => WrongOn(w)
      ]_vars

\* a word was promoted past every level an earlier run left behind
C3_Witness ==
    \E w \in DOMAIN words :
        /\ words[w].review_level = MaxLevel + 1
        /\ answered[w] = 0

(* --------------------------- math quiz claims --------------------------- *)
\* user u sends an answer, as a letter or through the answer callback
AnswerFrom(u) ==
    \/ \E txt \in Range(OptionLetters) : handle_incoming_message(u, txt)
    \/ \E i \in Options : math_callback_handler(u, "trig_answer", i)

\* user u asks for the next question or to finish, by button text or callback
QuizAction(u) ==
    \/ handle_incoming_message(u, ControlNext)
    \/ handle_incoming_message(u, ControlQuit)
    \/ math_callback_handler(u, "trig_next_question", 0)
    \/ math_callback_handler(u, "trig_quit_quiz", 0)

\* C8: an answer sent while the question at the session's current index has
\* not been issued (the session has advanced past the question displayed
\* last) is a no-op: no counter, index or stored statistic changes.
C8_StaleAnswerNoOp ==
    [][\A u \in DOMAIN math_quiz_session :
         (shown[u] < math_quiz_session[u].current_index /\ AnswerFrom(u))
            => UNCHANGED <<math_quiz_session, math_quiz_sessions, math_quiz_answers,
                           math_question_stats, math_user_stats>>
      ]_vars

\* C9: once all N questions of a session are answered, the user's next quiz
\* action (next question or finish) computes and stores the summary and
\* clears the session.
C9_FullQuizFinishes ==
    [][\A u \in DOMAIN math_quiz_session :
         LET quiz_data == math_quiz_session[u]
         IN (quiz_data.current_index = Len(quiz_data.questions) /\ QuizAction(u))
            => /\ u \notin DOMAIN math_quiz_session'
               /\ math_quiz_sessions'[quiz_data.session_id].status = "completed"
               /\ Len(quiz_results') = Len(quiz_results) + 1
      ]_vars

\* the stored answers of a session that were judged is_correct
SessionRows(session_id, is_correct) ==
    {i \in DOMAIN math_quiz_answers :
        /\ math_quiz_answers[i].session_id = session_id
        /\ math_quiz_answers[i].is_correct = is_correct}

\* C10: the summary returned when a session finishes has correct = c and
\* wrong = w, the numbers of its stored answers judged correct and wrong,
\* percentage = 100 * c / (c + w), and c + w is the number of answers the
\* session has accepted.
C10_SummaryCounts ==
    [][Len(quiz_results') = Len(quiz_results) + 1 =>
         LET r == quiz_results'[Len(quiz_results')]
             c == Cardinality(SessionRows(r.session_id, TRUE))
             w == Cardinality(SessionRows(r.session_id, FALSE))
         IN /\ r.correct = c
            /\ r.wrong = w
            /\ r.percentage.num * (c + w) = 100 * c * r.percentage.den
            /\ \A u \in DOMAIN math_quiz_session :
                  math_quiz_session[u].session_id = r.session_id
                     => c + w = math_quiz_session[u].current_index
      ]_vars

\* a session of 5 questions finished with 3 correct and 2 wrong: 60 percent
C10_Witness ==
    \E i \in DOMAIN quiz_results :
        /\ quiz_results[i].correct = 3
        /\ quiz_results[i].wrong = 2
        /\ quiz_results[i].percentage = Real(60, 1)
        /\ math_quiz_sessions[quiz_results[i].session_id].total_questions = 5

\* user u quits: the finish button's text, or the quit callback
QuitFrom(u) ==
    \/ handle_incoming_message(u, ControlQuit)
    \/ math_callback_handler(u, "trig_quit_quiz", 0)

\* C11: a quit before the last question is answered finalizes the session:
\* its row is completed and the summary returned has correct = c and wrong = w,
\* the numbers of stored answers judged correct and wrong, with
\* percentage = 100 * c / (c + w) as for a full run; c + w is the number of
\* questions answered, and only these are added to the user's totals.
C11_QuitFinalizesEarly ==
    [][\A u \in DOMAIN math_quiz_session :
         LET quiz_data == math_quiz_session[u]
             sid == quiz_data.session_id
             user_id == math_quiz_sessions[sid].user_id
             c == Cardinality(SessionRows(sid, TRUE))
             w == Cardinality(SessionRows(sid, FALSE))
         IN (quiz_data.current_index < Len(quiz_data.questions) /\ QuitFrom(u))
            => /\ Len(quiz_results') = Len(quiz_results) + 1
               /\ LET r == quiz_results'[Len(quiz_results')]
                  IN /\ r.session_id = sid
                     /\ r.correct = c
                     /\ r.wrong = w
                     /\ r.percentage.num * (c + w) = 100 * c * r.percentage.den
                     /\ (c + w = 0) => r.percentage = Zero
               /\ c + w = quiz_data.current_index
               /\ math_quiz_sessions'[sid].status = "completed"
               /\ math_quiz_sessions'[sid].correct_count = c
               /\ math_quiz_sessions'[sid].wrong_count = w
               /\ math_user_stats'[user_id].total_questions =
                     math_user_stats[user_id].total_questions + c + w
               /\ math_user_stats'[user_id].total_correct =
                     math_user_stats[user_id].total_correct + c
               /\ math_user_stats'[user_id].total_wrong =
                     math_user_stats[user_id].total_wrong + w
      ]_vars

\* a session of 5 questions was quit after one correct and one wrong answer:
\* the summary counts 2 questions, and so do the user's totals
C11_Witness ==
    \E i \in DOMAIN quiz_results :
        LET r == quiz_results[i]
            row == math_quiz_sessions[r.session_id]
        IN /\ r.correct = 1
           /\ r.wrong = 1
           /\ r.percentage = Real(50, 1)
           /\ row.total_questions = 5
           /\ row.status = "completed"
           /\ math_user_stats[row.user_id].total_questions = 2
           /\ row.user_id \notin DOMAIN math_quiz_session

(* ------------------------------ cache claims ---------------------------- *)
\* the scope of cache key <<user, group>> contains a word with this row
InScope(row, key) ==
    IF key[2] # NoGroup THEN row.group_id = key[2] ELSE row.user_id = key[1]

\* no cache entry is left for a key whose scope contains the row
Dropped(row, cache) == \A key \in DOMAIN cache : ~InScope(row, key)

\* C12: when a step has added a word, removed a word (by any of the delete
\* operations), or changed a word's level (a record_stat that promotes or
\* demotes), WORDS_CACHE holds no entry for a key whose scope contains that word.
C12_MutationsDropCache ==
    [][/\ \A w \in DOMAIN words' \ DOMAIN words : Dropped(words'[w], WORDS_CACHE')
       /\ \A w \in DOMAIN words \ DOMAIN words' : Dropped(words[w], WORDS_CACHE')
       /\ \A w \in DOMAIN words \cap DOMAIN words' :
             words'[w].review_level # words[w].review_level
                => Dropped(words'[w], WORDS_CACHE')
      ]_vars

\* the word asked last was promoted by its answer, after the question had
\* loaded the cache, and the cache is empty
C12_Witness ==
    /\ WORDS_CACHE = << >>
    /\ \E key \in DOMAIN LAST_ASKED :
          /\ LAST_ASKED[key] \in DOMAIN words
          /\ words[LAST_ASKED[key]].review_level = 1
          /\ words[LAST_ASKED[key]].next_review > today
          /\ stats[<<1, "correct">>] = 1

\* the words pick_user_word may return for (user_id, group_id) in this state
MayPick(user_id, group_id) ==
    PickChoices(PickCache(WORDS_CACHE, words, user_id, group_id, today),
                LAST_ASKED, user_id, group_id)

\* C13: every cache entry lists only words the store holds, each once, and
\* pick_user_word can return no word the store does not hold.
C13_CacheHoldsStoredWords ==
    /\ \A key \in DOMAIN WORDS_CACHE :
          LET ws == WORDS_CACHE[key]
          IN /\ \A i \in DOMAIN ws : ws[i] \in DOMAIN words
             /\ \A i, j \in DOMAIN ws : ws[i] = ws[j] => i = j
    /\ \A u \in Askers, g \in Groups : MayPick(u, g) \subseteq DOMAIN words

\* a word was deleted, and the cache was loaded again with a word that is left
C13_Witness ==
    /\ Cardinality(DOMAIN words) < wordSeq
    /\ \E key \in DOMAIN WORDS_CACHE \cap DOMAIN LAST_ASKED :
          /\ WORDS_CACHE[key] # << >>
          /\ LAST_ASKED[key] \in DOMAIN words

\* is the word due in the store on day d
Due(w, d) == words[w].next_review = NULL \/ words[w].next_review <= d

\* C14: every word pick_user_word can return is in the store with next_review
\* NULL or not after today; a promoted word is not returned before its date.
C14_PickedIsDue ==
    \A u \in Askers, g \in Groups :
        \A w \in MayPick(u, g) : w \in DOMAIN words /\ Due(w, today)

\* a word of the scope is promoted and not due, and the cache loaded since
\* lists another word and not this one
C14_Witness ==
    \E key \in DOMAIN WORDS_CACHE, w \in DOMAIN words :
        /\ InScope(words[w], key)
        /\ words[w].review_level = 1
        /\ words[w].next_review > today
        /\ WORDS_CACHE[key] # << >>
        /\ w \notin Range(WORDS_CACHE[key])

\* C15: every clear() of the cache comes after the commit of the store write
\* it belongs to: none is made by a transaction that is rolled back afterwards.
C15_InvalidateAfterCommit == ~cache_reads.rolled_back

\* the words of the scope that are due in the store today
StoreEligible(user_id, group_id) ==
    {w \in DOMAIN words : InScope(words[w], <<user_id, group_id>>) /\ Due(w, today)}

\* C16: a clear() leaves WORDS_CACHE empty whatever it held, also when it was
\* empty already; the first read of a key after that loads the store's due
\* words once, and a read of a key that is cached loads nothing and leaves
\* the cache as it is.
C16_InvalidateIdempotent ==
    [][/\ (\E u \in Users, g \in Groups : delete_all_words(u, g)) => WORDS_CACHE' = << >>
       /\ \A u \in Askers :
             LET key == <<u, selected_group>>
             IN send_quiz_poll_word(u, selected_group) =>
                   IF key \in DOMAIN WORDS_CACHE
                   THEN /\ WORDS_CACHE' = WORDS_CACHE
                        /\ cache_reads'.loads[key] = cache_reads.loads[key]
                   ELSE /\ DOMAIN WORDS_CACHE' = DOMAIN WORDS_CACHE \cup {key}
                        /\ cache_reads'.loads[key] = 1
      ]_vars

\* the cache was cleared twice in a row and the key then read twice: it was
\* loaded from the store once
C16_Witness ==
    /\ cache_reads.clears = 2
    /\ \E key \in DOMAIN cache_reads.reads :
          /\ cache_reads.reads[key] = 2
          /\ cache_reads.loads[key] = 1
          /\ key \in DOMAIN WORDS_CACHE

\* C17: a question asked when the cache holds nothing for its key (the cache
\* was dropped, or never loaded) is answered from the words of the scope
\* that are due in the store: they are what the cache lists afterwards, the
\* word asked is one of them, and the store is unchanged.
C17_CacheLossHarmless ==
    [][\A u \in Askers :
         LET key == <<u, selected_group>>
         IN (key \notin DOMAIN WORDS_CACHE /\ send_quiz_poll_word(u, selected_group))
            => /\ Range(WORDS_CACHE'[key]) = StoreEligible(u, selected_group)
               /\ Len(WORDS_CACHE'[key]) = Cardinality(StoreEligible(u, selected_group))
               /\ IF StoreEligible(u, selected_group) = {}
                  THEN LAST_ASKED' = LAST_ASKED
                  ELSE LAST_ASKED'[key] \in StoreEligible(u, selected_group)
               /\ UNCHANGED <<today, words, wordSeq, stats, points>>
      ]_vars

\* the cache was dropped by a promotion and loaded again: it lists the word
\* that is still due and not the promoted one
C17_Witness ==
    /\ cache_reads.clears >= 1
    /\ \E key \in DOMAIN WORDS_CACHE, w \in DOMAIN words :
          /\ Count(cache_reads.loads, key) = 1
          /\ InScope(words[w], key)
          /\ ~Due(w, today)
          /\ WORDS_CACHE[key] # << >>
          /\ LAST_ASKED[key] \in Range(WORDS_CACHE[key])
          /\ LAST_ASKED[key] # w

\* C18: when the store holds two or more due words of the scope, the next
\* question of the scope cannot be for the word asked last in it.
C18_NoImmediateRepeat ==
    \A u \in Askers :
        LET key == <<u, selected_group>>
        IN (key \in DOMAIN LAST_ASKED
            /\ Cardinality(StoreEligible(u, selected_group)) >= 2)
           => LAST_ASKED[key] \notin MayPick(u, selected_group)

(* --------------------------- distractor claims -------------------------- *)
\* C19: get_distractors returns 3 strings and none of them is the correct
\* word's translation.
C19_DistractorsDiffer ==
    distractors # NoCall =>
        /\ Len(distractors.opts) = 3
        /\ \A i \in DOMAIN distractors.opts :
              distractors.opts[i] # uzbek[distractors.correct_word_id]

\* C20: with k < 3 other words in the scope, the list is the translations of
\* the k other rows, each row once and never the chosen word's own, and then
\* 3 - k placeholder strings.
C20_SmallScopePadded ==
    distractors # NoCall =>
        LET others == OtherRows(1, distractors.correct_word_id, distractors.group_id)
            k == Cardinality(others)
            opts == distractors.opts
        IN k < 3 =>
              /\ Len(opts) = 3
              /\ \E s \in [1 .. k -> others] :
                    /\ \A i, j \in 1 .. k : s[i] = s[j] => i = j
                    /\ \A i \in 1 .. k : opts[i] = uzbek[s[i]]
              /\ \A i \in k + 1 .. 3 : opts[i] \in Range(placeholders)

\* the scope holds two words, "mushuk" and "it"; the question for the first
\* has the distractors "it" and two placeholders
C20_Witness ==
    /\ DOMAIN words = {1, 2}
    /\ words[1].group_id = words[2].group_id
    /\ uzbek[1] = "mushuk"
    /\ uzbek[2] = "it"
    /\ distractors.correct_word_id = 1
    /\ distractors.opts[1] = "it"
    /\ distractors.opts[2] \in Range(placeholders)
    /\ distractors.opts[3] \in Range(placeholders)

(* ------------------------------ point claims ---------------------------- *)
\* C21: no user's point total is negative, in any state reached by adding
\* words and answering.
C21_PointsNeverNegative == \A u \in Users : points[u] >= 0

\* a wrong answer at 0 points left the total at 0, and the correct answer
\* after it gave 5: the total is 5, not 1
C21_Witness ==
    /\ stats[<<1, "wrong">>] = 1
    /\ stats[<<1, "correct">>] = 1
    /\ stats[<<1, "added">>] = 0
    /\ points[1] = 5

\* C22: a correct answer adds 7 in blitz mode and 5 otherwise, a wrong answer
\* takes 4 in both modes, each floored at 0, and the points of the other
\* users stay.
C22_AnswerDeltas ==
    [][\A u \in Users, w \in WordIds, b \in BOOLEAN :
         /\ (stats'[<<u, "correct">>] # stats[<<u, "correct">>]
                /\ Answer(u, "correct", w, b)) =>
               points' = [points EXCEPT ![u] = Max(@ + (IF b THEN 7 ELSE 5), 0)]
         /\ (stats'[<<u, "wrong">>] # stats[<<u, "wrong">>]
                /\ Answer(u, "wrong", w, b)) =>
               points' = [points EXCEPT ![u] = Max(@ - 4, 0)]
      ]_vars

\* a correct blitz answer and a wrong answer after it: 7 - 4
C22_Witness ==
    /\ stats[<<1, "correct">>] = 1
    /\ stats[<<1, "wrong">>] = 1
    /\ points[1] = 3

\* C23: record_stat for a word the store does not hold appends the stat row,
\* leaves table words as it is, and runs on to its points update.
C23_MissingWordStat ==
    [][\A u \in Users, a \in {"correct", "wrong"}, w \in WordIds, b \in BOOLEAN :
         (w \notin DOMAIN words /\ Answer(u, a, w, b)) =>
            /\ stats' = [stats EXCEPT ![<<u, a>>] = @ + 1]
            /\ words' = words
            /\ points' = AddPoints(points, u, PointsDelta(a, b))
      ]_vars

\* the store has never held a word, and two answers for word id 1 are on
\* record with their points
C23_Witness ==
    /\ wordSeq = 0
    /\ words = << >>
    /\ stats[<<1, "wrong">>] = 1
    /\ stats[<<1, "correct">>] = 1
    /\ points[1] = 5

\* C24: a step appends a stat row of an answer, applies the outcome to the
\* word asked and applies the point delta, or does none of the three.
C24_StatAllOrNone ==
    [][\A u \in Askers :
         LET key == <<u, selected_group>>
             Appended(a) == stats'[<<u, a>>] = stats[<<u, a>>] + 1
         IN /\ \A a \in {"correct", "wrong"} :
                  Appended(a) =>
                     /\ key \in DOMAIN LAST_ASKED
                     /\ words' = StatWords(words, a, LAST_ASKED[key], today)
                     /\ points' = AddPoints(points, u, PointsDelta(a, FALSE))
            /\ stats' = stats =>
                  /\ points' = points
                  /\ \A w \in DOMAIN words \cap DOMAIN words' : words'[w] = words[w]
      ]_vars

\* a record_stat call failed after its clear(): nothing of it is in the store
C24_Witness ==
    /\ cache_reads.rolled_back
    /\ StatsTotal = 0
    /\ points[1] = 0
    /\ \E key \in DOMAIN LAST_ASKED :
          /\ LAST_ASKED[key] \in DOMAIN words
          /\ words[LAST_ASKED[key]].review_level = 0
          /\ words[LAST_ASKED[key]].wrong_count = 0

\* C25: when the no-words message of a question has been sent, no poll is
\* registered, the user has no quiz or blitz session left, and no summary
\* is produced.
C25_NoWordsEndsSession ==
    [][send_poll_no_words =>
          /\ pollSeq' = pollSeq
          /\ DOMAIN ACTIVE_POLLS' \subseteq DOMAIN ACTIVE_POLLS
          /\ handler.user \notin DOMAIN QUIZ_SESSIONS'
          /\ handler.user \notin DOMAIN BLITZ_SESSIONS'
          /\ summaries' = summaries
      ]_vars

(* ------------------------- failed answer claims ------------------------- *)
\* C26: an answer whose save fails leaves the user's quiz session (index,
\* counters, score, answered questions) exactly as it was.
C26_FailedAnswerKeepsSession ==
    [][\A u \in QuizUsers, i \in Options :
         process_answer_save_raises(u, i) => math_quiz_session' = math_quiz_session
      ]_vars

(* ----------------------------- groups cache ----------------------------- *)
GroupIds == 1 .. MaxGroups
GroupNames == {"a", "b"}

create_group(name, owner_id) ==
    /\ groupSeq < MaxGroups
    /\ groupSeq' = groupSeq + 1
    /\ groups' = (groupSeq + 1 :> [owner_id |-> owner_id, name |-> name]) @@ groups
    /\ users_groups' = users_groups \cup {<<owner_id, groupSeq + 1>>}
    /\ GROUPS_CACHE' = Remove(GROUPS_CACHE, owner_id)

rename_group(group_id, new_name, requester_id) ==
    /\ group_id \in DOMAIN groups
    /\ groups[group_id].owner_id = requester_id \/ is_admin(requester_id)
    /\ groups' = [groups EXCEPT ![group_id].name = new_name]
    /\ GROUPS_CACHE' = Remove(GROUPS_CACHE, requester_id)
    /\ UNCHANGED <<users_groups, groupSeq>>

add_user_to_group(user_id, group_id, requester_id) ==
    /\ is_group_owner(requester_id, group_id) \/ is_admin(requester_id)
    /\ users_groups' = users_groups \cup {<<user_id, group_id>>}
    /\ UNCHANGED <<groups, GROUPS_CACHE, groupSeq>>

\* SELECT g.id, g.name FROM groups g JOIN users_groups ug ... WHERE ug.user_id=?
UserGroupRows(user_id) ==
    [g \in {x \in DOMAIN groups : <<user_id, x>> \in users_groups} |-> groups[g].name]

\* GROUPS_CACHE after get_user_groups has looked the user up
GroupsCacheAfter(user_id) ==
    IF user_id \in DOMAIN GROUPS_CACHE THEN GROUPS_CACHE
    ELSE (user_id :> UserGroupRows(user_id)) @@ GROUPS_CACHE

\* what get_user_groups returns
get_user_groups(user_id) == GroupsCacheAfter(user_id)[user_id]

GroupsFrame ==
    UNCHANGED <<pollVars, mathVars, parseVars, selected_group, uzbek, cache_reads, distractors>>

CreateGroupStep ==
    /\ \E n \in GroupNames, u \in Users : create_group(n, u)
    /\ UNCHANGED reviewVars
    /\ GroupsFrame
RenameGroupStep ==
    /\ \E g \in GroupIds, n \in GroupNames, u \in Users : rename_group(g, n, u)
    /\ UNCHANGED reviewVars
    /\ GroupsFrame
DeleteGroupStep ==
    /\ \E g \in GroupIds, u \in Users : delete_group(g, u)
    /\ GroupsFrame
AddUserStep ==
    /\ \E u \in Users, g \in GroupIds, r \in Users : add_user_to_group(u, g, r)
    /\ UNCHANGED reviewVars
    /\ GroupsFrame
UserGroupsStep ==
    /\ \E u \in Users : GROUPS_CACHE' = GroupsCacheAfter(u)
    /\ UNCHANGED <<reviewVars, groups, users_groups, groupSeq>>
    /\ GroupsFrame

GroupsNext ==
    \/ CreateGroupStep
    \/ RenameGroupStep
    \/ DeleteGroupStep
    \/ AddUserStep
    \/ UserGroupsStep

\* a fresh database: no group, no membership, nothing cached
SpecGroups == QuizSpecInit /\ [][GroupsNext]_vars

\* C27: get_user_groups returns, for every user, exactly the groups the store
\* holds for the user, with the names the store holds.
C27_GroupsCacheInSync ==
    \A u \in Users : get_user_groups(u) = UserGroupRows(u)


(* --------------------------- folded aggregates -------------------------- *)
\* create_quiz_session: INSERT the session row; start_quiz calls it for an
\* unlocked user only
create_quiz_session(user_id, total_questions) ==
    /\ is_user_unlocked(math_user_stats, user_id)
    /\ Len(math_quiz_sessions) < MaxFolds
    /\ math_quiz_sessions' =
          Append(math_quiz_sessions, NewSessionRow(user_id, total_questions))
    /\ UNCHANGED <<math_quiz_session, math_quiz_answers, math_question_stats,
                   math_user_stats, quiz_results, shown, reply>>

CreateSessionStep ==
    /\ \E u \in QuizUsers, num \in QuizSizes : create_quiz_session(u, num)
    /\ UNCHANGED <<reviewVars, pollVars, bookVars>>

\* finish_quiz_session called for the session the user plays, the latest row,
\* with the counts of a quiz of total_questions questions
FinishSessionStep ==
    /\ Len(math_quiz_sessions) > 0
    /\ Len(quiz_results) < MaxFolds
    /\ \E correct_count \in 0 .. MaxFoldCount, wrong_count \in 0 .. MaxFoldCount :
          /\ correct_count + wrong_count
                <= math_quiz_sessions[Len(math_quiz_sessions)].total_questions
          /\ finish_quiz_session(Len(math_quiz_sessions), correct_count, wrong_count)
    /\ UNCHANGED <<math_quiz_session, math_quiz_answers, math_question_stats,
                   shown, reply>>
    /\ UNCHANGED <<reviewVars, pollVars, bookVars>>

FoldNext == CodeStep \/ CreateSessionStep \/ FinishSessionStep

SpecFold == QuizSpecInit /\ [][FoldNext]_vars

\* C28: when a session is finished, the user's row of aggregates has
\* total_sessions one larger, total_questions, total_correct and total_wrong
\* larger by the session's correct + wrong, correct and wrong counts,
\* average_percentage = 100 * total_correct / total_questions (0 when no
\* question was answered), and best_score the larger of the previous best
\* and the session's percentage; no step ever lowers a best_score.
C28_AggregatesFolded ==
    [][/\ \A u \in DOMAIN math_user_stats :
             /\ u \in DOMAIN math_user_stats'
             /\ ~Less(math_user_stats'[u].best_score, math_user_stats[u].best_score)
       /\ Len(quiz_results') = Len(quiz_results) + 1 =>
             LET r == quiz_results'[Len(quiz_results')]
                 user_id == math_quiz_sessions[r.session_id].user_id
                 prev == math_user_stats[user_id]
                 new == math_user_stats'[user_id]
             IN /\ new.total_sessions = prev.total_sessions + 1
                /\ new.total_questions = prev.total_questions + r.correct + r.wrong
                /\ new.total_correct = prev.total_correct + r.correct
                /\ new.total_wrong = prev.total_wrong + r.wrong
                /\ new.average_percentage.num * new.total_questions =
                      100 * new.total_correct * new.average_percentage.den
                /\ (new.total_questions = 0) => new.average_percentage = Zero
                /\ new.best_score \in {prev.best_score, r.percentage}
                /\ ~Less(new.best_score, prev.best_score)
                /\ ~Less(new.best_score, r.percentage)
      ]_vars

\* a session of 100 percent (1 of 1) was followed by one of 50 percent
\* (1 of 2): 2 sessions, 3 questions, 2 correct, average 200/3, best still
\* 100 and still credited to the first session
C28_Witness ==
    /\ Len(quiz_results) = 2
    /\ quiz_results[1].percentage = Real(100, 1)
    /\ quiz_results[2].percentage = Real(50, 1)
    /\ \E u \in DOMAIN math_user_stats :
          /\ math_user_stats[u].total_sessions = 2
          /\ math_user_stats[u].total_questions = 3
          /\ math_user_stats[u].total_correct = 2
          /\ math_user_stats[u].total_wrong = 1
          /\ math_user_stats[u].average_percentage = Real(200, 3)
          /\ math_user_stats[u].best_score = Real(100, 1)
          /\ math_user_stats[u].best_session_id = 1


(* ------------------------------ word lines ------------------------------ *)
Letters == {"a", "b"}
LineChars == Letters \cup {Space, "-", EnDash, EmDash, ":"}
SeqsUpTo(S, n) == UNION {[1 .. k -> S] : k \in 0 .. n}

\* any line of up to MaxLineLen characters
Lines == SeqsUpTo(LineChars, MaxLineLen)

\* an English phrase, hyphenated or not, then " - ", then the translation
Phrases ==
    {e \in SeqsUpTo(Letters \cup {"-"}, MaxPhraseLen) :
        e # << >> /\ e[1] \in Letters /\ e[Len(e)] \in Letters}
Translations == SeqsUpTo(Letters, MaxTranslationLen) \ {<< >>}
SpacedDash == <<Space, "-", Space>>
PhraseLines == {e \o SpacedDash \o u : e \in Phrases, u \in Translations}

ParseInit ==
    /\ today = 0
    /\ words = << >>
    /\ wordSeq = 0
    /\ stats = [k \in Users \X StatActions |-> 0]
    /\ points = [u \in Users |-> 0]
    /\ WORDS_CACHE = << >>
    /\ answered = [w \in WordIds |-> 0]
    /\ PollsInit
    /\ MathInit
    /\ groups = << >>
    /\ users_groups = {}
    /\ GROUPS_CACHE = << >>
    /\ groupSeq = 0
    /\ selected_group = NoGroup
    /\ uzbek = [w \in WordIds |-> "mushuk"]
    /\ cache_reads = NoReads
    /\ distractors = NoCall
    /\ line \in Lines \cup PhraseLines
    /\ parsed = NotParsed
    /\ imported = NoImport

ParseStep ==
    /\ parsed' = parse_word_line(line)
    /\ UNCHANGED <<line, imported, reviewVars, pollVars, mathVars, groups, memberVars,
                   selected_group, uzbek, cache_reads, distractors>>

ParseNext == ParseStep

SpecParse == ParseInit /\ [][ParseNext]_vars

Dashes == {"-", EnDash, EmDash}
\* the character at i is the separator of the line l: its only dash, or, in a
\* line without a dash, its only colon
SeparatorAt(l, i) ==
    \/ l[i] \in Dashes /\ \A j \in DOMAIN l \ {i} : l[j] \notin Dashes
    \/ l[i] = ":" /\ \A j \in DOMAIN l \ {i} : l[j] \notin Dashes \cup {":"}

\* C29: a line with one dash of any of the three kinds is split at it, colons
\* or not; a line without a dash and with one colon is split at the colon;
\* the two parts are returned with the whitespace at their ends removed
\* (a part that is empty then is refused).
C29_SplitsAtSeparator ==
    parsed # NotParsed =>
        \A i \in DOMAIN line :
            LET before == SubSeq(line, 1, i - 1)
                after == SubSeq(line, i + 1, Len(line))
                HasText(s) == \E k \in DOMAIN s : s[k] # Space
                Trimmed(s) ==
                    LET ks == {k \in DOMAIN s : s[k] # Space}
                        lo == CHOOSE k \in ks : \A m \in ks : k <= m
                        hi == CHOOSE k \in ks : \A m \in ks : k >= m
                    IN SubSeq(s, lo, hi)
            IN (SeparatorAt(line, i) /\ HasText(before) /\ HasText(after))
                  => /\ parsed.error = "none"
                     /\ parsed.eng = Trimmed(before)
                     /\ parsed.uz = Trimmed(after)

\* "a: – b" with an en dash: split at the dash although a colon comes
\* first, and the spaces around the dash are dropped
C29_Witness ==
    /\ line = <<"a", ":", Space, EnDash, "b">>
    /\ parsed = Returned(<<"a", ":">>, <<"b">>)

\* C30: a line made of an English phrase that contains a hyphen, " - " and a
\* translation is parsed to the whole phrase and the translation.
C30_HyphenatedPhraseKept ==
    parsed # NotParsed =>
        \A e \in Phrases, u \in Translations :
            (line = e \o SpacedDash \o u /\ \E k \in DOMAIN e : e[k] = "-")
               => parsed = Returned(e, u)


\* the sequence holds a character that is not whitespace
NotBlank(s) == \E k \in DOMAIN s : s[k] # Space

\* C31: parse_word_line raises ValueError, and returns no pair: 'empty line'
\* for a line that is empty or only whitespace, 'no separator found' for a
\* line with text and neither a dash nor a colon, and 'empty english or
\* uzbek' for a line whose part before or after its separator is empty or
\* only whitespace.
C31_ParseErrors ==
    parsed # NotParsed =>
        /\ ~NotBlank(line) => parsed = ValueError("empty line")
        /\ (NotBlank(line) /\ \A k \in DOMAIN line : line[k] \notin Dashes \cup {":"})
              => parsed = ValueError("no separator found")
        /\ \A i \in DOMAIN line :
              (/\ SeparatorAt(line, i)
               /\ NotBlank(line)
               /\ \/ ~NotBlank(SubSeq(line, 1, i - 1))
                  \/ ~NotBlank(SubSeq(line, i + 1, Len(line))))
                 => parsed = ValueError("empty english or uzbek")
        /\ parsed.error # "none" => parsed.eng = << >> /\ parsed.uz = << >>

\* " - a": nothing but a space before the dash
C31_Witness ==
    /\ line = <<Space, "-", Space, "a">>
    /\ parsed = ValueError("empty english or uzbek")


(* ----------------------------- word imports ----------------------------- *)
\* the loop of add_words_from_lines from line idx on; st holds the tables
\* and the two results: a blank line is passed over, a line that does not
\* parse leaves "Line idx: message" in errors, any other is given to add_word
RECURSIVE add_words_loop(_, _, _, _, _)
add_words_loop(st, user_id, lines, group_id, idx) ==
    IF idx > Len(lines)
    THEN st
    ELSE IF is_blank(lines[idx])
    THEN add_words_loop(st, user_id, lines, group_id, idx + 1)
    ELSE LET r == parse_word_line(lines[idx])
         IN IF r.error # "none"
            THEN add_words_loop([st EXCEPT !.errors = Append(@, <<idx, r.error>>)],
                                user_id, lines, group_id, idx + 1)
            ELSE add_words_loop(
                    [st EXCEPT
                        !.wordSeq = @ + 1,
                        !.words = (st.wordSeq + 1 :>
                                      NewWordRow(user_id, group_id, today)) @@ @,
                        !.stats = InsertStat(@, user_id, "added"),
                        !.points = AddPoints(@, user_id, POINTS_FOR_ADDED),
                        !.added = @ + 1],
                    user_id, lines, group_id, idx + 1)

add_words_from_lines(user_id, lines, group_id) ==
    LET st == add_words_loop(
                 [words |-> words, wordSeq |-> wordSeq, stats |-> stats,
                  points |-> points, added |-> 0, errors |-> << >>],
                 user_id, lines, group_id, 1)
    IN /\ ~imported.called
       /\ words' = st.words
       /\ wordSeq' = st.wordSeq
       /\ stats' = st.stats
       /\ points' = st.points
       /\ WORDS_CACHE' = IF st.added > 0 THEN << >> ELSE WORDS_CACHE
       /\ answered' = [w \in DOMAIN answered \cup DOMAIN st.words |->
                          IF w \in DOMAIN words /\ w \in DOMAIN answered
                          THEN answered[w] ELSE 0]
       /\ imported' = [called |-> TRUE, lines |-> lines,
                       added |-> st.added, errors |-> st.errors]
       /\ UNCHANGED <<today, line, parsed>>

\* the lines sent: blank ones, a pair, a word alone, a translation alone
ImportLineSet ==
    {<< >>, <<Space>>, <<"a", "-", "b">>, <<"a">>, <<Space, "-", "b">>}
LineLists == SeqsUpTo(ImportLineSet, MaxImportLines)

ImportStep ==
    /\ \E u \in Users, ls \in LineLists, g \in Groups : add_words_from_lines(u, ls, g)
    /\ UNCHANGED <<pollVars, mathVars, groups, memberVars, selected_group, uzbek,
                   cache_reads, distractors>>

ImportNext == ImportStep

SpecImport == ReviewInit /\ [][ImportNext]_vars

\* C32: a call of add_words_from_lines passes over the blank lines, leaves
\* one error for each line that has text and does not parse, in the order of
\* the lines, and adds every other line: added + errors + blank lines is the
\* number of lines, the words table grows by exactly 'added' rows and the
\* rows it had are kept.
C32_ImportCounts ==
    [][(imported'.called /\ ~imported.called) =>
         LET r == imported'
             idx == DOMAIN r.lines
             blank == {i \in idx : ~NotBlank(r.lines[i])}
             valid == {i \in idx \ blank : parse_word_line(r.lines[i]).error = "none"}
             failed == (idx \ blank) \ valid
         IN /\ r.added + Len(r.errors) + Cardinality(blank) = Len(r.lines)
            /\ r.added = Cardinality(valid)
            /\ Len(r.errors) = Cardinality(failed)
            /\ {r.errors[k][1] : k \in DOMAIN r.errors} = failed
            /\ \A k \in DOMAIN r.errors :
                  /\ r.errors[k][2] = parse_word_line(r.lines[r.errors[k][1]]).error
                  /\ \A m \in DOMAIN r.errors : k < m => r.errors[k][1] < r.errors[m][1]
            /\ Cardinality(DOMAIN words') = Cardinality(DOMAIN words) + r.added
            /\ \A w \in DOMAIN words : w \in DOMAIN words' /\ words'[w] = words[w]
            /\ StatsTotal' = StatsTotal + r.added
      ]_vars

\* "a-b", a line of one space and "a" were sent to a store of one word:
\* one word added, one error for line 3, two words stored
C32_Witness ==
    /\ imported.called
    /\ imported.lines = <<<<"a", "-", "b">>, <<Space>>, <<"a">>>>
    /\ imported.added = 1
    /\ imported.errors = <<<<3, "no separator found">>>>
    /\ Cardinality(DOMAIN words) = 2


(* ---------------------------- defective rows ---------------------------- *)
\* a row of the database file the bot is started on, or of a backup file
\* restored into it, whose review_level is below 0: the column is a plain
\* INTEGER, the file is taken as it is
DefectRows ==
    [user_id : {1}, group_id : {NoGroup}, review_level : {0 - 2, 0 - 1},
     next_review : {NULL, 0}, correct_count : {0, 1}, wrong_count : {0}]

DefectInit ==
    /\ today = 0
    /\ \/ words = << >> /\ wordSeq = 0
       \/ \E r \in EarlierRows \cup DefectRows : words = (1 :> r) /\ wordSeq = 1
    /\ stats = [k \in Users \X StatActions |-> 0]
    /\ points = [u \in Users |-> 0]
    /\ WORDS_CACHE = << >>
    /\ answered = [w \in WordIds |->
                      IF w \in DOMAIN words THEN words[w].correct_count ELSE 0]
    /\ PollsInit
    /\ MathInit
    /\ BookInit

SpecDefect == DefectInit /\ [][ReviewNext]_vars

C34_FirstCorrectKeepsDate ==
    [][\A w \in DOMAIN words :
         (CorrectOn(w) /\ words[w].correct_count = 0) =>
            /\ w \in DOMAIN words'
            /\ words'[w].correct_count = 1
            /\ words'[w].wrong_count = 0
            /\ words'[w].review_level = words[w].review_level
            /\ words'[w].next_review = words[w].next_review
            /\ (words[w].next_review = NULL \/ words[w].next_review <= today)
                  => (words'[w].next_review = NULL \/ words'[w].next_review <= today')
      ]_vars

\* a word added in this run was answered correctly once: streak 1, still at
\* level 0 and due on the day it was added
C34_Witness ==
    /\ 1 \in DOMAIN words
    /\ stats[<<1, "added">>] = 1
    /\ stats[<<1, "correct">>] = 1
    /\ StatsTotal = 2
    /\ today = 0
    /\ words[1].correct_count = 1
    /\ words[1].review_level = 0
    /\ words[1].next_review = 0


(* ------------------------- word selection claims ------------------------ *)
\* the eligible words pick_user_word gets for the scope through the cache:
\* the entry of its key, loaded from the store if the key is missing
CacheEligible(user_id, group_id) ==
    Range(PickCache(WORDS_CACHE, words, user_id, group_id, today)[<<user_id, group_id>>])

\* C35: pick_user_word returns None exactly when the eligible words it gets
\* through the cache are none; otherwise it returns one of them, with no
\* LAST_ASKED entry for the scope, with one, and with one that names a word
\* the store no longer holds.
C35_PickNoneIffEmpty ==
    \A u \in Askers, g \in Groups :
        /\ MayPick(u, g) = {} <=> CacheEligible(u, g) = {}
        /\ MayPick(u, g) \subseteq CacheEligible(u, g)

\* the word asked last in a scope was deleted, and the scope still has a word
\* to ask
C35_Witness ==
    \E key \in DOMAIN LAST_ASKED :
        /\ LAST_ASKED[key] \notin DOMAIN words
        /\ key[1] \in Askers
        /\ CacheEligible(key[1], key[2]) # {}
        /\ MayPick(key[1], key[2]) # {}


(* --------------------------- session registry --------------------------- *)
\* u presses a blitz duration button
BlitzStarted(u) == \E g \in SelectedGroups : blitz_start_cb(u, "minutes", g)

\* a start stores a fresh session for its user, in place of the one the user
\* had, and touches no other user's session
StartReplaces ==
    \A u \in Users :
        BlitzStarted(u) =>
            /\ BLITZ_SESSIONS'[u] = NewBlitzSession(startSeq')
            /\ \A v \in DOMAIN BLITZ_SESSIONS \ {u} :
                  v \in DOMAIN BLITZ_SESSIONS' /\ BLITZ_SESSIONS'[v] = BLITZ_SESSIONS[v]
            /\ DOMAIN BLITZ_SESSIONS' = DOMAIN BLITZ_SESSIONS \cup {u}

\* a run of the deadline job that found a session and has ended leaves its
\* user without a session
CompletionRemoves ==
    \A j \in DOMAIN jobs :
        (jobs[j].pc = "sending" /\ JobEnded(jobs'[j]))
            => jobs[j].tg_id \notin DOMAIN BLITZ_SESSIONS'

\* C36: the registry holds one blitz session per user: a start replaces the
\* session of its user by a fresh one, and the session is gone from the
\* registry when the run of the deadline job that completes it has ended.
C36_OneSessionReplaced == [][StartReplaces /\ CompletionRemoves]_vars

\* the first half alone, which every run satisfies
StartAlwaysReplaces == [][StartReplaces]_vars


\* C37: the timer scheduled by the j-th start finalizes only the session
\* that start stored (the one whose deadline is j): it takes up no session
\* stored by a later start, so it sends no summary of it and does not remove
\* it.
C37_OwnTimerOnly ==
    [][\A j \in DOMAIN jobs :
         /\ job_fires(j) =>
               (jobs'[j].pc = "sending" => BLITZ_SESSIONS[jobs[j].tg_id].until = j)
         /\ (/\ job_sent(j)
             /\ jobs[j].tg_id \in DOMAIN BLITZ_SESSIONS
             /\ BLITZ_SESSIONS[jobs[j].tg_id].until # j)
               => BLITZ_SESSIONS' = BLITZ_SESSIONS
      ]_vars


(* ------------------------------ poll claims ----------------------------- *)
\* C38: every registered poll is scored at most once: each record_stat call
\* of on_poll_answer is for a poll that was not scored before, so the stats
\* rows the answers have written never outnumber the polls registered.
C38_ScoredAtMostOnce == StatsTotal <= pollSeq


\* blitz sessions whose deadline is not reached: starts, questions, answers
OwnerNext ==
    \/ BlitzStartStep
    \/ PollAnswerStep
    \/ send_poll_pick
    \/ send_poll_no_words
    \/ send_poll_sent

SpecOwner == PollsSpecInit /\ [][OwnerNext]_vars

\* the answer is one on_poll_answer returns from before scoring: the poll is
\* not registered, or was issued to another user, or no option is chosen
Rejected(u, poll_id, chosen) ==
    \/ poll_id \notin DOMAIN ACTIVE_POLLS
    \/ ACTIVE_POLLS[poll_id].tg_user_id # u
    \/ chosen = NoOption

\* C39: an answer for a poll that is not registered, an answer from a user
\* the poll was not issued to, and an answer with no chosen option leave the
\* words, the points, the stats, both session registries and ACTIVE_POLLS as
\* they are.
C39_OnlyOwnerScores ==
    [][(\E u \in Users, p \in 1 .. MaxPolls, chosen \in ShuffleOutcomes \cup {NoOption} :
           Rejected(u, p, chosen) /\ on_poll_answer(u, p, chosen))
            => UNCHANGED <<words, points, stats, BLITZ_SESSIONS, QUIZ_SESSIONS,
                           ACTIVE_POLLS>>
      ]_vars

\* a poll issued to user 1 is open and unscored while user 2 holds none: an
\* answer of user 2 for it has nothing of its own to score
C39_Witness ==
    /\ handler = Idle
    /\ StatsTotal = 0
    /\ DOMAIN ACTIVE_POLLS = {1}
    /\ ACTIVE_POLLS[1].tg_user_id = 1
    /\ 2 \in DOMAIN BLITZ_SESSIONS
    /\ ENABLED (\E chosen \in ShuffleOutcomes : on_poll_answer(2, 1, chosen))

(* ----------------------------- stored streaks --------------------------- *)
\* the process starts on an empty database: every word is one add_word made
StreakInit ==
    /\ ReviewInit
    /\ words = << >>

\* the owner of a stored word answers a question on it, the stats table
\* explored up to MaxStreakStats rows
StreakAnswerStep ==
    /\ StatsTotal < MaxStreakStats
    /\ \E w \in DOMAIN words, a \in {"correct", "wrong"}, b \in BOOLEAN :
          /\ record_stat(words[w].user_id, a, w, b)
          /\ answered' = Answered(answered, a, w)
    /\ UNCHANGED <<today, wordSeq>>
    /\ UNCHANGED <<pollVars, mathVars, bookVars>>

StreakNext ==
    \/ AddWordStep
    \/ StreakAnswerStep
    \/ MidnightStep

SpecStreak == StreakInit /\ [][StreakNext]_vars

\* C40: between record_stat calls every stored word has a correct streak of 0
\* or 1 and a wrong_count of 0, so the next correct answer counts to at most
\* PromoteAt and the test 'new_count == 2' is never stepped over.
C40_StreakBelowPromotion ==
    \A w \in DOMAIN words :
        /\ words[w].correct_count \in {0, 1}
        /\ words[w].wrong_count = 0
        /\ words[w].correct_count + 1 <= PromoteAt

\* the added word was answered wrongly, then promoted by two correct answers,
\* and has been answered correctly once more since
C40_Witness ==
    /\ 1 \in DOMAIN words
    /\ words[1].review_level = 1
    /\ words[1].correct_count = 1
    /\ \E u \in Users : stats[<<u, "wrong">>] >= 1

====
